---- MODULE Spec2Model ----
(***************************************************************************)
(* Model of the URL store of the scraper (src/src/storage.py): one         *)
(* URLStorage object, its backing JSON file and the calls made on it.      *)
(* A URL is a sequence of one-character strings, so that whitespace and    *)
(* the trailing slash are visible to the model.                            *)
(* The scrapers (src/src/scraper.py and its subclasses) are modelled as    *)
(* functions of what the network answers; each has its own specification.  *)
(***************************************************************************)
EXTENDS Naturals, Sequences, FiniteSets, TLC

\* ---------------------------------------------------------------- bounds

\* longest candidate list handed to one add_urls call
MaxBatch == 2

\* longest stored sequence explored
MaxStored == 3

\* last reading of the wall clock explored
MaxClock == 5

\* ------------------------------------------------------------ URL strings

Whitespace == {" "}

\* the candidate URLs: "a", "a/" and " b"
Urls == { <<"a">>, <<"a", "/">>, <<" ", "b">> }

RECURSIVE lstrip(_)
lstrip(u) ==
    IF u # <<>> /\ Head(u) \in Whitespace THEN lstrip(Tail(u)) ELSE u

RECURSIVE rstrip(_)
rstrip(u) ==
    IF u # <<>> /\ u[Len(u)] \in Whitespace
    THEN rstrip(SubSeq(u, 1, Len(u) - 1))
    ELSE u

\* str.strip()
strip(u) == rstrip(lstrip(u))

\* str.endswith('/')
endswith_slash(u) == u # <<>> /\ u[Len(u)] = "/"

\* one round of the cleaning loop of add_urls: strip, then drop one '/'
clean_one(u) ==
    LET s == strip(u)
    IN  IF endswith_slash(s) THEN SubSeq(s, 1, Len(s) - 1) ELSE s

\* the list `cleaned` that add_urls builds (empty candidates are skipped)
RECURSIVE cleaned(_)
cleaned(new_urls) ==
    IF new_urls = <<>> THEN <<>>
    ELSE IF Head(new_urls) = <<>> THEN cleaned(Tail(new_urls))
    ELSE <<clean_one(Head(new_urls))>> \o cleaned(Tail(new_urls))

\* ------------------------------------------------------------------ state

VARIABLES
    file,    \* the backing file: absent, corrupt (not JSON) or a JSON document
    data,    \* self.data of the store object
    now,     \* the next reading of datetime.now()
    last,    \* the last call made on the store, with the state it started in
    repeat,  \* the last two calls were add_urls with the same candidate list
    loadedFrom,  \* kind of the file the store object was loaded from
    admitted,    \* the URLs add_urls recorded in this store object, in order
    call,        \* the last scraper call: its inputs and what it did
    run          \* the run of main(): where it stands and what it did so far

\* the variables of the store
storeVars == <<file, data, now, last, repeat, loadedFrom, admitted>>

vars == <<file, data, now, last, repeat, loadedFrom, admitted, call, run>>

\* no scraper call was made
NoCall == [op |-> "none"]

\* main() is not running
NoRun == [pc |-> "none"]

AbsentFile == [kind |-> "absent"]
CorruptFile == [kind |-> "corrupt"]
JsonFile(d) == [kind |-> "json", doc |-> d]

\* the dictionary _load returns for a missing or unparsable file
EmptyData(t) ==
    [urls |-> <<>>, created_at |-> t, last_updated |-> t + 1, total_urls |-> 0]

\* number of datetime.now() readings _load makes
load_ticks(f) == IF f.kind = "json" THEN 0 ELSE 2

\* URLStorage._load: the dictionary held by a store built on file f at time t
_load(f, t) ==
    IF f.kind = "absent" THEN EmptyData(t)
    ELSE IF f.kind = "corrupt" THEN EmptyData(t)
    ELSE f.doc

\* get_seen_urls, were the stored URLs cleaned before the comparison
get_seen_urls_cleaned(d) == { clean_one(d.urls[i]) : i \in 1..Len(d.urls) }

\* URLStorage.get_seen_urls
get_seen_urls(d) == { d.urls[i] : i \in 1..Len(d.urls) }

\* the list comprehension, were it run over `cleaned`
truly_new_cleaned(new_urls, seen) ==
    SelectSeq(cleaned(new_urls), LAMBDA url : url \notin seen)

\* the list comprehension of add_urls
truly_new(new_urls, seen) == SelectSeq(new_urls, LAMBDA url : url \notin seen)

\* the extension, were the new URLs put in front
extend_front(urls, tn) == tn \o urls

\* self.data["urls"].extend(truly_new)
extend(urls, tn) == urls \o tn

\* the metadata lines, were the count left as loaded
save_metadata_stale_total(d, t) == [d EXCEPT !.last_updated = t]

\* the metadata lines of _save
save_metadata(d, t) ==
    [d EXCEPT !.last_updated = t, !.total_urls = Len(d.urls)]

\* outcomes of the open/json.dump of _save
SaveOutcomes == {"ok", "open_fail", "dump_fail"}

\* the file, were it opened in append mode
save_file_append(f, d, outcome) ==
    CASE outcome = "ok" -> IF f.kind = "absent" THEN JsonFile(d) ELSE CorruptFile
      [] outcome = "open_fail" -> f
      [] outcome = "dump_fail" -> CorruptFile

\* the file after _save tried to write dictionary d
save_file(f, d, outcome) ==
    CASE outcome = "ok" -> JsonFile(d)
      [] outcome = "open_fail" -> f
      [] outcome = "dump_fail" -> CorruptFile

\* _save, were the exception logged and dropped
save_raises_swallowed(outcome) == FALSE

\* _save re-raises what open/json.dump raised
save_raises(outcome) == outcome # "ok"

\* add_urls, were _save called whatever truly_new holds
must_save_always(tn) == TRUE

\* the branch `if truly_new:` of add_urls
must_save(tn) == tn # <<>>

\* URLStorage.get_stats
get_stats(d) ==
    [total_urls |-> Len(d.urls),
     created_at |-> d.created_at,
     last_updated |-> d.last_updated]

\* the record kept of one call on the store and of the state it started in
Call(op, arg, ret, raised, wrote, outcome) ==
    [op |-> op, arg |-> arg, ret |-> ret, raised |-> raised, wrote |-> wrote,
     outcome |-> outcome, preData |-> data, preFile |-> file]

Init ==
    /\ file \in {AbsentFile, CorruptFile}
    /\ now = 2
    /\ data = _load(file, 0)
    /\ last = [op |-> "load", arg |-> <<>>, ret |-> <<>>, raised |-> FALSE,
               wrote |-> FALSE, outcome |-> "none",
               preData |-> data, preFile |-> file]
    /\ repeat = FALSE
    /\ loadedFrom = file.kind
    /\ admitted = <<>>
    /\ call = NoCall
    /\ run = NoRun

\* URLStorage.__init__: a new store object is built on the file (a new run)
Load ==
    /\ now + load_ticks(file) <= MaxClock
    /\ data' = _load(file, now)
    /\ now' = now + load_ticks(file)
    /\ last' = Call("load", <<>>, <<>>, FALSE, FALSE, "none")
    /\ repeat' = FALSE
    /\ loadedFrom' = file.kind
    /\ admitted' = <<>>
    /\ UNCHANGED <<file, call, run>>

\* URLStorage.add_urls(new_urls), the write of _save ending in `outcome`
AddUrls(new_urls, outcome) ==
    LET seen == get_seen_urls(data)
        tn == truly_new(new_urls, seen)
    IN  IF must_save(tn)
        THEN LET d1 == [data EXCEPT !.urls = extend(@, tn)]
                 d2 == save_metadata(d1, now)
             IN  /\ Len(d1.urls) <= MaxStored
                 /\ now < MaxClock
                 /\ data' = d2
                 /\ now' = now + 1
                 /\ file' = save_file(file, d2, outcome)
                 /\ last' = Call("add_urls", new_urls,
                                 IF save_raises(outcome) THEN <<>> ELSE tn,
                                 save_raises(outcome), TRUE, outcome)
                 /\ admitted' = admitted \o tn
        ELSE /\ outcome = "ok"
             /\ last' = Call("add_urls", new_urls, tn, FALSE, FALSE, "none")
             /\ UNCHANGED <<file, data, now, admitted>>

\* the candidate lists tried: every list of at most MaxBatch URLs
Candidates == UNION { [1..n -> Urls] : n \in 0..MaxBatch }

AddUrlsCall ==
    \E new_urls \in Candidates, outcome \in SaveOutcomes :
        /\ AddUrls(new_urls, outcome)
        /\ repeat' = (last.op = "add_urls" /\ last.arg = new_urls)
        /\ UNCHANGED <<loadedFrom, call, run>>

\* URLStorage.get_stats(): reads the store, changes nothing
GetStats ==
    /\ last' = Call("get_stats", <<>>, <<>>, FALSE, FALSE, "none")
    /\ repeat' = FALSE
    /\ UNCHANGED <<file, data, now, loadedFrom, admitted, call, run>>

Next == Load \/ AddUrlsCall \/ GetStats

Spec == Init /\ [][Next]_vars

\* ------------------------------------------------- helpers of the claims

\* the last call was add_urls
AddCalled == last.op = "add_urls"

\* the last call was add_urls and it returned to its caller
AddReturned == AddCalled /\ ~last.raised

IsPrefix(s, t) == Len(s) <= Len(t) /\ SubSeq(t, 1, Len(s)) = s

Elems(s) == { s[i] : i \in 1..Len(s) }

\* s without the elements of S, the rest in their order
RECURSIVE Without(_, _)
Without(s, S) ==
    IF s = <<>> THEN <<>>
    ELSE IF Head(s) \in S THEN Without(Tail(s), S)
    ELSE <<Head(s)>> \o Without(Tail(s), S)

\* s with every repeat dropped, the first mention kept
RECURSIVE Collapse(_)
Collapse(s) ==
    IF s = <<>> THEN <<>>
    ELSE <<Head(s)>> \o Collapse(Without(Tail(s), {Head(s)}))

\* the URLRecord invariants: non-empty, no surrounding whitespace, no final '/'
IsURLRecord(u) == u # <<>> /\ strip(u) = u /\ ~endswith_slash(u)

\* ----------------------------------------------------------------- claims

\* C1: add_urls called twice in a row with the same candidate list returns
\* the empty list the second time, and the second call writes nothing: the
\* file and the in-memory data are what they were before it.
C1_Idempotent ==
    repeat =>
        /\ ~last.raised
        /\ last.ret = <<>>
        /\ ~last.wrote
        /\ file = last.preFile
        /\ data = last.preData

\* C1 witness: a list with URLs the first call recorded is handed in again
C1_Witness ==
    /\ repeat
    /\ last.arg # <<>>
    /\ Elems(last.arg) \subseteq Elems(admitted)

\* C2 as stated: when no candidate is stored yet, add_urls returns the
\* candidates with the repeats inside the call collapsed to their first
\* mention, and the stored sequence grows by exactly that collapsed list.
C2_InBatchCollapse ==
    (AddReturned /\ Elems(last.arg) \cap Elems(last.preData.urls) = {}) =>
        /\ last.ret = Collapse(last.arg)
        /\ data.urls = last.preData.urls \o Collapse(last.arg)

\* C3: add_urls returns exactly the candidates that are not in the set
\* stored before the call, compared as raw strings, in their order, and the
\* stored sequence becomes the old one followed by the returned list.
C3_ReturnsUnseenRaw ==
    AddReturned =>
        /\ last.ret = Without(last.arg, Elems(last.preData.urls))
        /\ data.urls = last.preData.urls \o last.ret

\* C3 witness: "a/" is returned as new by a store that already holds "a"
C3_Witness ==
    /\ AddReturned
    /\ <<"a">> \in Elems(last.preData.urls)
    /\ <<"a", "/">> \in Elems(last.ret)

\* C4 as stated: no URL occurs twice in the stored sequence.
C4_NoDuplicateStored ==
    \A i, j \in 1..Len(data.urls) : data.urls[i] = data.urls[j] => i = j

\* C5: after an add_urls that returned and added a URL, total_urls of the
\* file is the length of the file's urls, of the in-memory sequence and
\* the total get_stats reports.
C5_TotalMatches ==
    (AddReturned /\ last.ret # <<>>) =>
        /\ file.kind = "json"
        /\ file.doc.total_urls = Len(file.doc.urls)
        /\ Len(file.doc.urls) = Len(data.urls)
        /\ get_stats(data).total_urls = file.doc.total_urls

\* C5 witness: a second successful batch, so the count was not 0 before
C5_Witness ==
    /\ AddReturned
    /\ last.ret # <<>>
    /\ last.preFile.kind = "json"
    /\ last.preData.urls # <<>>

\* C6: the sequence stored before an add_urls call is a prefix of the one
\* stored after it, in memory and in the file.
C6_AppendOnly ==
    AddCalled =>
        /\ IsPrefix(last.preData.urls, data.urls)
        /\ (last.preFile.kind = "json" /\ file.kind = "json") =>
               IsPrefix(last.preFile.doc.urls, file.doc.urls)

\* C6 witness: a non-empty store grew
C6_Witness ==
    /\ AddCalled
    /\ last.preData.urls # <<>>
    /\ Len(data.urls) > Len(last.preData.urls)
    /\ last.preFile.kind = "json"
    /\ file.kind = "json"

\* C7: add_urls with a candidate list that holds no URL absent from the
\* store writes nothing: file, stored sequence and metadata are unchanged.
C7_NoNewNoWrite ==
    (AddCalled /\ Elems(last.arg) \subseteq Elems(last.preData.urls)) =>
        /\ ~last.wrote
        /\ ~last.raised
        /\ last.ret = <<>>
        /\ file = last.preFile
        /\ data = last.preData

\* C7 witness: a non-empty list of stored URLs handed to a store with a file
C7_Witness ==
    /\ AddCalled
    /\ last.arg # <<>>
    /\ Elems(last.arg) \subseteq Elems(last.preData.urls)
    /\ last.preFile.kind = "json"

\* C8 as stated: every stored URL is non-empty, has no surrounding
\* whitespace and no trailing '/'.
C8_StoredAreURLRecords ==
    \A i \in 1..Len(data.urls) : IsURLRecord(data.urls[i])

C10_WriteFailureRaises ==
    /\ (AddCalled /\ last.outcome \in {"open_fail", "dump_fail"}) =>
           last.raised /\ last.ret = <<>>
    /\ (AddReturned /\ last.ret # <<>>) =>
           last.outcome = "ok" /\ file = JsonFile(data)

\* C10 witness: a write failed that had URLs to add
C10_Witness ==
    /\ AddCalled
    /\ last.outcome \in {"open_fail", "dump_fail"}
    /\ last.raised
    /\ Len(data.urls) > Len(last.preData.urls)

\* ------------------------------------------------------ the fetch layer

\* largest max_retries explored
MaxRetries == 3

\* config.RETRY_DELAY, the seconds slept between two attempts
RETRY_DELAY == 2

\* the store while a scraper is being looked at: built on no file, unused
StoreUnused ==
    /\ file = AbsentFile
    /\ now = 2
    /\ data = _load(AbsentFile, 0)
    /\ last = [op |-> "load", arg |-> <<>>, ret |-> <<>>, raised |-> FALSE,
               wrote |-> FALSE, outcome |-> "none",
               preData |-> data, preFile |-> file]
    /\ repeat = FALSE
    /\ loadedFrom = "absent"
    /\ admitted = <<>>

\* the same, and main() not running
StoreIdle == StoreUnused /\ run = NoRun

\* what session.get can end in: a RequestException raised by the transport
\* or a response with a status and a body
NetError(type) == [kind |-> "error", type |-> type]
Response(status, body) == [kind |-> "response", status |-> status, body |-> body]

\* the statuses answered: one of each class the code tells apart
Statuses == {200, 304, 404, 500}

\* the transport errors raised
ErrorTypes == {"ConnectionError", "Timeout"}

\* response.raise_for_status(): HTTPError for a 4xx or 5xx status
raise_for_status(resp) == resp.status >= 400 /\ resp.status < 600

\* one attempt of the loop ends in the except branch
attempt_raises(o) == o.kind = "error" \/ raise_for_status(o)

\* the exception an attempt leaves in last_exception
exception_of(o, attempt) ==
    [type |-> IF o.kind = "error" THEN o.type ELSE "HTTPError",
     attempt |-> attempt]

\* last_exception = None
NoException == [type |-> "None", attempt |-> 0]

\* the events a fetch leaves behind: requests and sleeps, in order
GetEvent(url) == [ev |-> "get", url |-> url, secs |-> 0]
SleepEvent(secs) == [ev |-> "sleep", url |-> <<>>, secs |-> secs]

\* the loop, were its range one attempt short
more_attempts_short(attempt, max_retries) == attempt < max_retries

\* for attempt in range(1, self.max_retries + 1)
more_attempts(attempt, max_retries) == attempt <= max_retries

\* the loop, were it to sleep after every failure
sleep_due_always(attempt, max_retries) == TRUE

\* if attempt < self.max_retries: time.sleep(self.retry_delay)
sleep_due(attempt, max_retries) == attempt < max_retries

\* the loop of _fetch_with_retry from `attempt` on; outs[i] is what the
\* i-th session.get of this call ends in
RECURSIVE fetch_loop(_, _, _, _, _, _)
fetch_loop(url, outs, max_retries, attempt, events, last_exception) ==
    IF ~more_attempts(attempt, max_retries)
    THEN [raised |-> TRUE,
          exc |-> IF last_exception = NoException
                  THEN [type |-> "TypeError", attempt |-> 0]
                  ELSE last_exception,
          resp |-> Response(0, <<>>), events |-> events]
    ELSE LET o == outs[attempt]
             got == Append(events, GetEvent(url))
         IN  IF ~attempt_raises(o)
             THEN [raised |-> FALSE, exc |-> NoException, resp |-> o,
                   events |-> got]
             ELSE fetch_loop(url, outs, max_retries, attempt + 1,
                             IF sleep_due(attempt, max_retries)
                             THEN Append(got, SleepEvent(RETRY_DELAY))
                             ELSE got,
                             exception_of(o, attempt))

\* BaseScraper._fetch_with_retry(url)
_fetch_with_retry(url, outs, max_retries) ==
    fetch_loop(url, outs, max_retries, 1, <<>>, NoException)

\* what the attempts of one fetch can end in (the body plays no part here)
AttemptOutcomes ==
    { NetError(t) : t \in ErrorTypes } \cup { Response(st, <<>>) : st \in Statuses }

\* a scraper built with max_retries, and what the network will answer
FetchInit ==
    /\ StoreIdle
    /\ \E max_retries \in 1..MaxRetries :
         \E outs \in [1..max_retries -> AttemptOutcomes] :
            call = [op |-> "ready", max_retries |-> max_retries, outs |-> outs]

\* the call of _fetch_with_retry
FetchCall ==
    /\ call.op = "ready"
    /\ call' = [op |-> "_fetch_with_retry", max_retries |-> call.max_retries,
                outs |-> call.outs,
                res |-> _fetch_with_retry(<<"u">>, call.outs, call.max_retries)]
    /\ UNCHANGED <<storeVars, run>>

FetchNext == FetchCall

SpecFetch == FetchInit /\ [][FetchNext]_vars

\* ------------------------------------------------- claims on the fetch layer

Fetched == call.op = "_fetch_with_retry"

CountEv(events, ev) == Cardinality({ i \in 1..Len(events) : events[i].ev = ev })

\* the first k-1 attempts fail and the k-th does not
FirstSuccessAt(outs, k) ==
    /\ k \in 1..Len(outs)
    /\ ~(outs[k].kind = "error" \/ outs[k].status \in 400..599)
    /\ \A i \in 1..(k - 1) : outs[i].kind = "error" \/ outs[i].status \in 400..599

\* requests and sleeps alternate, a request first and a request last
Alternates(events) ==
    \A i \in 1..Len(events) :
        events[i].ev = (IF i % 2 = 1 THEN "get" ELSE "sleep")

\* C11: a fetch whose first k-1 attempts fail and whose k-th attempt succeeds
\* (k <= max_retries) returns the k-th response after exactly k attempts and
\* exactly k-1 sleeps of retry_delay.
C11_RetryThenSuccess ==
    Fetched =>
        \A k \in 1..call.max_retries :
            FirstSuccessAt(call.outs, k) =>
                /\ ~call.res.raised
                /\ call.res.resp = call.outs[k]
                /\ CountEv(call.res.events, "get") = k
                /\ CountEv(call.res.events, "sleep") = k - 1
                /\ Alternates(call.res.events)
                /\ \A i \in 1..Len(call.res.events) :
                       call.res.events[i].ev = "sleep" =>
                           call.res.events[i].secs = RETRY_DELAY

\* C11 witness: max_retries = 3, two failures, then a success
C11_Witness ==
    /\ Fetched
    /\ call.max_retries = 3
    /\ FirstSuccessAt(call.outs, 3)
    /\ ~call.res.raised

\* C12: when every attempt fails, _fetch_with_retry makes exactly max_retries
\* attempts, sleeps max_retries - 1 times, each time between two attempts,
\* and raises the error of the last attempt; it never makes more than
\* max_retries attempts.
C12_RetryExhausted ==
    Fetched =>
        /\ CountEv(call.res.events, "get") <= call.max_retries
        /\ (\A i \in 1..call.max_retries :
                call.outs[i].kind = "error" \/ call.outs[i].status \in 400..599) =>
               /\ call.res.raised
               /\ CountEv(call.res.events, "get") = call.max_retries
               /\ CountEv(call.res.events, "sleep") = call.max_retries - 1
               /\ Alternates(call.res.events)
               /\ call.res.exc.attempt = call.max_retries
               /\ call.res.exc.type =
                      (IF call.outs[call.max_retries].kind = "error"
                       THEN call.outs[call.max_retries].type
                       ELSE "HTTPError")

\* C12 witness: three failed attempts of different kinds
C12_Witness ==
    /\ Fetched
    /\ call.max_retries = 3
    /\ call.res.raised
    /\ call.outs[1].kind = "error"
    /\ call.outs[3].kind = "response"

\* --------------------------------------------------- the sitemap parser

\* most <loc> elements in one document
MaxLocs == 2

\* config.MAX_RETRIES, the max_retries main.py builds the scrapers with
MAX_RETRIES == 3

\* the texts of <loc> elements; a text is a sequence of pieces, " " is
\* whitespace, <<>> is an element without text
LocTexts ==
    { <<>>, <<"p">>, <<" ", "p">>, <<"data-breach">>, <<"DATA-BREACH">> }

\* where the <lastmod> beside a <loc> lies: no <lastmod>, one inside the
\* window from yesterday 00:00 UTC to now, one outside it
Lastmods == {"absent", "in_window", "out_of_window"}

\* a <loc> element: its parent (<url> or <sitemap>), whether it is in the
\* sitemap namespace, its text and the <lastmod> beside it
LocEntries ==
    { [parent |-> "url", ns |-> n, text |-> t, lastmod |-> l] :
        n \in BOOLEAN, t \in LocTexts, l \in Lastmods }
    \cup
    { [parent |-> "sitemap", ns |-> n, text |-> t, lastmod |-> "absent"] :
        n \in BOOLEAN, t \in LocTexts }

\* response.content: bytes ET.fromstring rejects, bytes that make it raise
\* something else, or a document with its <loc> elements in document order
MalformedBody == [xml |-> "malformed"]
UnexpectedBody == [xml |-> "unexpected"]
Document(entries) == [xml |-> "ok", entries |-> entries]

Documents == { Document(e) : e \in UNION { [1..n -> LocEntries] : n \in 0..MaxLocs } }

\* ET.fromstring(response.content) raises
fromstring_raises(body) == body.xml # "ok"

\* the exception ET.fromstring raises
fromstring_exception(body) ==
    IF body.xml = "malformed" THEN "ParseError" ELSE "Exception"

\* root.findall(".//ns:loc", namespaces)
findall_ns_loc(entries) == SelectSeq(entries, LAMBDA e : e.ns)

\* root.findall(".//loc")
findall_loc(entries) == SelectSeq(entries, LAMBDA e : ~e.ns)

\* the parser, were it to read the <url> nodes only
loc_nodes_of_urls(entries) ==
    LET under_url == SelectSeq(entries, LAMBDA e : e.parent = "url")
    IN  IF findall_ns_loc(under_url) # <<>> THEN findall_ns_loc(under_url)
        ELSE findall_loc(under_url)

\* loc_nodes of parse_xml_sitemap, with the no-namespace fallback
loc_nodes(entries) ==
    IF findall_ns_loc(entries) # <<>> THEN findall_ns_loc(entries)
    ELSE findall_loc(entries)

\* the loop over loc_nodes: urls.append(loc.text.strip()) for each text
RECURSIVE loc_texts(_)
loc_texts(nodes) ==
    IF nodes = <<>> THEN <<>>
    ELSE IF Head(nodes).text # <<>>
         THEN <<strip(Head(nodes).text)>> \o loc_texts(Tail(nodes))
         ELSE loc_texts(Tail(nodes))

\* the parser, were the duplicates left in
dict_fromkeys_kept(urls) == urls

\* list(dict.fromkeys(urls))
RECURSIVE dict_fromkeys(_)
dict_fromkeys(urls) ==
    IF urls = <<>> THEN <<>>
    ELSE LET rest == dict_fromkeys(SubSeq(urls, 1, Len(urls) - 1))
             u == urls[Len(urls)]
         IN  IF \E i \in 1..Len(rest) : rest[i] = u THEN rest
             ELSE Append(rest, u)

\* the parser, were its last handler missing
parse_catches_named(exc) == exc \in {"ParseError", "RequestException"}

\* the except clauses of parse_xml_sitemap: ET.ParseError,
\* requests.RequestException, Exception
parse_catches(exc) == exc \in {"ParseError", "RequestException", "Exception"}

\* the class the handlers of parse_xml_sitemap see a fetch error as
fetch_exception(exc) ==
    IF exc.type = "TypeError" THEN "Exception" ELSE "RequestException"

\* BaseScraper.parse_xml_sitemap(sitemap_url); outs is what the requests
\* of sitemap_url end in
parse_xml_sitemap(sitemap_url, outs, max_retries) ==
    LET f == _fetch_with_retry(sitemap_url, outs, max_retries)
        exc == IF f.raised THEN fetch_exception(f.exc)
               ELSE IF fromstring_raises(f.resp.body)
                    THEN fromstring_exception(f.resp.body)
                    ELSE "None"
    IN  IF exc # "None"
        THEN [urls |-> <<>>, raised |-> ~parse_catches(exc), events |-> f.events]
        ELSE [urls |-> dict_fromkeys(loc_texts(loc_nodes(f.resp.body.entries))),
              raised |-> FALSE, events |-> f.events]

\* u.lower(), piece by piece
lower(u) ==
    [i \in 1..Len(u) |-> IF u[i] = "DATA-BREACH" THEN "data-breach" ELSE u[i]]

\* the test, were the URL not lowered first
has_keyword_cased(u) == \E i \in 1..Len(u) : u[i] = "data-breach"

\* keyword in u.lower(), for keyword = "data-breach"
has_keyword(u) == \E i \in 1..Len(u) : lower(u)[i] = "data-breach"

\* JoinClassActionsScraper.sitemap_url
JcaSitemapUrl == <<"class_actions-sitemap1.xml">>

\* JoinClassActionsScraper.scrape()
jca_scrape(outs, max_retries) ==
    LET r == parse_xml_sitemap(JcaSitemapUrl, outs, max_retries)
    IN  IF r.raised
        THEN [urls |-> <<>>, raised |-> FALSE, events |-> r.events]
        ELSE [urls |-> dict_fromkeys(SelectSeq(r.urls, has_keyword)),
              raised |-> FALSE, events |-> r.events]

\* a document for the requests that are answered after failures
SampleDocument ==
    Document(<< [parent |-> "url", ns |-> TRUE, text |-> <<"data-breach">>,
                 lastmod |-> "in_window"] >>)

\* what the requests of one sitemap end in: answered at once with any body,
\* or any mix of failures and answers carrying the sample document
SitemapAnswers ==
    { [i \in 1..MAX_RETRIES |-> Response(200, b)] :
        b \in Documents \cup {MalformedBody, UnexpectedBody} }
    \cup
    [1..MAX_RETRIES ->
        { NetError("ConnectionError"), Response(500, MalformedBody),
          Response(304, MalformedBody), Response(200, SampleDocument) }]

\* a scraper, and what the network will answer for its sitemap
ParseInit ==
    /\ StoreIdle
    /\ \E outs \in SitemapAnswers : call = [op |-> "ready", outs |-> outs]

\* the call of parse_xml_sitemap
ParseCall ==
    /\ call.op = "ready"
    /\ call' = [op |-> "parse_xml_sitemap", outs |-> call.outs,
                res |-> parse_xml_sitemap(<<"s">>, call.outs, MAX_RETRIES)]
    /\ UNCHANGED <<storeVars, run>>

\* the call of JoinClassActionsScraper.scrape
JcaScrapeCall ==
    /\ call.op = "ready"
    /\ call' = [op |-> "jca_scrape", outs |-> call.outs,
                res |-> jca_scrape(call.outs, MAX_RETRIES)]
    /\ UNCHANGED <<storeVars, run>>

ParseNext == ParseCall \/ JcaScrapeCall

SpecParse == ParseInit /\ [][ParseNext]_vars

\* ------------------------------------------- claims on the sitemap parser

Parsed == call.op = "parse_xml_sitemap"

\* the first request was answered 200 with a document
AnsweredDocument ==
    /\ call.outs[1].kind = "response"
    /\ call.outs[1].status = 200
    /\ call.outs[1].body.xml = "ok"

\* the <loc> elements of the answered document
AnsweredLocs == call.outs[1].body.entries

\* every attempt of the fetch failed
AllAttemptsFail ==
    \A i \in 1..MAX_RETRIES :
        call.outs[i].kind = "error" \/ call.outs[i].status \in 400..599

\* the stripped texts of the elements that have one, in document order
RECURSIVE TextsOf(_)
TextsOf(entries) ==
    IF entries = <<>> THEN <<>>
    ELSE (IF Head(entries).text = <<>> THEN <<>> ELSE <<strip(Head(entries).text)>>)
         \o TextsOf(Tail(entries))

\* the elements are all in the sitemap namespace or all outside it
OneVocabulary(entries) ==
    \A i, j \in 1..Len(entries) : entries[i].ns = entries[j].ns

\* C13: parse_xml_sitemap never raises: when the fetch fails after all
\* retries, the document is malformed or anything else goes wrong, it
\* returns the empty list.
C13_ParserNeverRaises ==
    Parsed =>
        /\ ~call.res.raised
        /\ (AllAttemptsFail \/ (call.outs[1].kind = "response"
                                /\ call.outs[1].status = 200
                                /\ call.outs[1].body.xml # "ok")) =>
               call.res.urls = <<>>

\* C13 witness: a body that makes ET.fromstring raise something unexpected
C13_Witness ==
    /\ Parsed
    /\ call.outs[1] = Response(200, UnexpectedBody)
    /\ call.res.urls = <<>>

\* C14: for a well-formed sitemap document, parse_xml_sitemap returns the
\* text of every <loc>, under <url> and under <sitemap> alike, in document
\* order, duplicates dropped with the first occurrence kept.
C14_AllLocsInOrder ==
    (Parsed /\ AnsweredDocument /\ OneVocabulary(AnsweredLocs)) =>
        /\ ~call.res.raised
        /\ call.res.urls = Collapse(TextsOf(AnsweredLocs))

\* C14 witness: a <url> and a <sitemap> entry whose texts are equal once
\* stripped
C14_Witness ==
    /\ Parsed
    /\ AnsweredDocument
    /\ Len(AnsweredLocs) = 2
    /\ AnsweredLocs[1].parent = "sitemap"
    /\ AnsweredLocs[2].parent = "url"
    /\ AnsweredLocs[1].ns /\ AnsweredLocs[2].ns
    /\ AnsweredLocs[1].text = <<" ", "p">>
    /\ AnsweredLocs[2].text = <<"p">>
    /\ call.res.urls = << <<"p">> >>

\* the document holds <sitemap><loc> children only, one of them with a text
IndexOnly(entries) ==
    /\ entries # <<>>
    /\ \A i \in 1..Len(entries) : entries[i].parent = "sitemap"
    /\ \E i \in 1..Len(entries) : entries[i].text # <<>>

\* C15 as stated: for a document with <sitemap><loc> children only,
\* parse_xml_sitemap returns the empty list.
C15_IndexYieldsNothing ==
    (Parsed /\ AnsweredDocument /\ IndexOnly(AnsweredLocs)) =>
        call.res.urls = <<>>

\* C15 amended: for a document with <sitemap><loc> children only,
\* parse_xml_sitemap returns the children's <loc> texts (a non-empty list)
\* and requests nothing but the document itself.
C15_IndexYieldsChildLocs ==
    (Parsed /\ AnsweredDocument /\ IndexOnly(AnsweredLocs)
        /\ OneVocabulary(AnsweredLocs)) =>
        /\ call.res.urls # <<>>
        /\ Elems(call.res.urls) = Elems(TextsOf(AnsweredLocs))
        /\ call.res.events = <<GetEvent(<<"s">>)>>

\* C15 witness: an index of two children
C15_Witness ==
    /\ Parsed
    /\ AnsweredDocument
    /\ IndexOnly(AnsweredLocs)
    /\ OneVocabulary(AnsweredLocs)
    /\ Len(call.res.urls) = 2

\* C20 as stated: every URL JoinClassActionsScraper.scrape returns is the
\* text of an entry whose <lastmod> lies in the window.
C20_OnlyRecentReturned ==
    (call.op = "jca_scrape" /\ AnsweredDocument) =>
        \A i \in 1..Len(call.res.urls) :
            \E j \in 1..Len(AnsweredLocs) :
                /\ AnsweredLocs[j].text # <<>>
                /\ strip(AnsweredLocs[j].text) = call.res.urls[i]
                /\ AnsweredLocs[j].lastmod = "in_window"

\* ------------------------------------ sitemap discovery of CyberSecGuru

\* most <sitemap> children in one sitemap index
MaxChildren == 2

\* CyberSecGuruScraper.site_url
SiteUrl == <<"https://thecybersecguru.com">>

\* the candidate paths, were the index tried first
SitemapPaths_index_first ==
    << "/sitemap_index.xml", "/sitemap.xml", "/post-sitemap.xml",
       "/page-sitemap.xml" >>

\* sitemap_paths of _try_sitemaps, in its order
SitemapPaths ==
    << "/sitemap.xml", "/sitemap_index.xml", "/post-sitemap.xml",
       "/page-sitemap.xml" >>

\* str.rstrip('/'), piece by piece
RECURSIVE rstrip_slash(_)
rstrip_slash(u) ==
    IF u # <<>> /\ u[Len(u)] = "/" THEN rstrip_slash(SubSeq(u, 1, Len(u) - 1))
    ELSE u

\* sitemap_url = self.site_url.rstrip('/') + path
sitemap_url_of(path) == rstrip_slash(SiteUrl) \o <<path>>

\* the URLs a sitemap index names as its children: two child sitemaps, the
\* first candidate path itself, and a <loc> without text
ChildSitemapUrls == { <<"c1">>, <<"c2">> }
ChildTexts == ChildSitemapUrls \cup { sitemap_url_of(SitemapPaths[1]), <<>> }

UrlEntry(text) ==
    [parent |-> "url", ns |-> TRUE, text |-> text, lastmod |-> "absent"]
SitemapEntry(text) ==
    [parent |-> "sitemap", ns |-> TRUE, text |-> text, lastmod |-> "absent"]

\* the sitemap indexes answered: one to MaxChildren children
IndexDocuments ==
    { Document([i \in 1..Len(t) |-> SitemapEntry(t[i])]) :
        t \in UNION { [1..m -> ChildTexts] : m \in 1..MaxChildren } }

\* a urlset of two pages whose texts are equal once stripped
PagesDocument == Document(<<UrlEntry(<<"p">>), UrlEntry(<<" ", "p">>)>>)

\* the urlsets of the two child sitemaps; they share a page
ChildDocumentA == Document(<<UrlEntry(<<"p">>), UrlEntry(<<"data-breach">>)>>)
ChildDocumentB == Document(<<UrlEntry(<<"data-breach">>), UrlEntry(<<"DATA-BREACH">>)>>)

\* what a candidate path answers, every time it is requested
PathOutcomes ==
    { NetError("ConnectionError"), Response(404, MalformedBody),
      Response(200, MalformedBody), Response(200, Document(<<>>)),
      Response(200, PagesDocument) }

\* what the paths beside a sitemap index answer
PathOutcomesBesideIndex ==
    { NetError("ConnectionError"), Response(200, Document(<<>>)),
      Response(200, PagesDocument) }

\* what the requests of a child sitemap end in, one after the other
ChildAnswers ==
    { [i \in 1..MAX_RETRIES |-> Response(200, ChildDocumentA)],
      [i \in 1..MAX_RETRIES |->
          IF i < MAX_RETRIES THEN NetError("Timeout")
          ELSE Response(200, ChildDocumentB)],
      [i \in 1..MAX_RETRIES |-> Response(500, MalformedBody)],
      [i \in 1..MAX_RETRIES |-> Response(200, MalformedBody)] }

\* the site: what each candidate path and each child sitemap answers
Sites ==
    { [paths |-> ps, children |-> cs] :
        ps \in [1..Len(SitemapPaths) -> PathOutcomes]
               \cup { [b EXCEPT ![k] = Response(200, d)] :
                        b \in [1..Len(SitemapPaths) -> PathOutcomesBesideIndex],
                        k \in 1..Len(SitemapPaths), d \in IndexDocuments },
        cs \in [ChildSitemapUrls -> ChildAnswers] }

\* what the requests of url end in; a URL without scheme makes session.get
\* raise MissingSchema
answers(site, url) ==
    IF \E k \in 1..Len(SitemapPaths) : url = sitemap_url_of(SitemapPaths[k])
    THEN LET k == CHOOSE k \in 1..Len(SitemapPaths) :
                      url = sitemap_url_of(SitemapPaths[k])
         IN  [i \in 1..MAX_RETRIES |-> site.paths[k]]
    ELSE IF url \in DOMAIN site.children THEN site.children[url]
    ELSE [i \in 1..MAX_RETRIES |-> NetError("MissingSchema")]

\* root.findall('.//ns:sitemap/ns:loc', namespaces)
findall_ns_sitemap_loc(entries) ==
    SelectSeq(entries, LAMBDA e : e.ns /\ e.parent = "sitemap")

\* the loop over the children, were a child that gave nothing asked again
RECURSIVE fetch_children_again(_, _, _, _, _)
fetch_children_again(site, sitemaps, max_retries, urls, events) ==
    IF sitemaps = <<>> THEN [urls |-> urls, events |-> events]
    ELSE LET outs == answers(site, Head(sitemaps).text)
             sub == parse_xml_sitemap(Head(sitemaps).text, outs, max_retries)
             again == IF sub.urls = <<>>
                      THEN parse_xml_sitemap(Head(sitemaps).text, outs,
                                             max_retries)
                      ELSE [urls |-> <<>>, events |-> <<>>]
         IN  fetch_children_again(site, Tail(sitemaps), max_retries,
                                  urls \o sub.urls \o again.urls,
                                  events \o sub.events \o again.events)

\* the loop over the children, were a child without URLs to end it
RECURSIVE fetch_children_until_failure(_, _, _, _, _)
fetch_children_until_failure(site, sitemaps, max_retries, urls, events) ==
    IF sitemaps = <<>> THEN [urls |-> urls, events |-> events]
    ELSE LET sub == parse_xml_sitemap(Head(sitemaps).text,
                                      answers(site, Head(sitemaps).text),
                                      max_retries)
         IN  IF sub.urls = <<>>
             THEN [urls |-> urls, events |-> events \o sub.events]
             ELSE fetch_children_until_failure(site, Tail(sitemaps), max_retries,
                                               urls \o sub.urls,
                                               events \o sub.events)

\* for sitemap_loc in sitemaps: urls.extend(parse_xml_sitemap(sitemap_loc.text))
RECURSIVE fetch_children(_, _, _, _, _)
fetch_children(site, sitemaps, max_retries, urls, events) ==
    IF sitemaps = <<>> THEN [urls |-> urls, events |-> events]
    ELSE LET sub == parse_xml_sitemap(Head(sitemaps).text,
                                      answers(site, Head(sitemaps).text),
                                      max_retries)
         IN  fetch_children(site, Tail(sitemaps), max_retries,
                            urls \o sub.urls, events \o sub.events)

\* the body of `if response.status_code == 200:` up to `if urls:`
read_sitemap(site, body, max_retries, urls, events) ==
    LET sitemaps == findall_ns_sitemap_loc(body.entries)
    IN  IF sitemaps # <<>>
        THEN fetch_children(site, sitemaps, max_retries, urls, events)
        ELSE [urls |-> urls \o loc_texts(findall_ns_loc(body.entries)),
              events |-> events]

\* a handler, were it written `except requests.RequestException:`
except_RequestException(exc) == exc = "RequestException"

\* `except Exception:` as the scrapers write it: every exception of the
\* fetch and of the parsers is caught
except_Exception(exc) == TRUE

\* the exception one probe of _try_sitemaps ends with: session.get raises a
\* RequestException, ET.fromstring rejects the body of a 200 answer
probe_exception(o) ==
    IF o.kind = "error" THEN "RequestException"
    ELSE IF o.status = 200 /\ fromstring_raises(o.body)
         THEN fromstring_exception(o.body)
         ELSE "None"

\* the loop of _try_sitemaps from the k-th candidate path on
RECURSIVE try_paths(_, _, _, _, _)
try_paths(site, max_retries, k, urls, events) ==
    IF k > Len(SitemapPaths)
    THEN [urls |-> urls, events |-> events, raised |-> FALSE, exc |-> "None"]
    ELSE LET sitemap_url == sitemap_url_of(SitemapPaths[k])
             o == answers(site, sitemap_url)[1]
             got == Append(events, GetEvent(sitemap_url))
             exc == probe_exception(o)
         IN  IF exc # "None"
             THEN IF except_Exception(exc)
                  THEN try_paths(site, max_retries, k + 1, urls, got)
                  ELSE [urls |-> urls, events |-> got, raised |-> TRUE,
                        exc |-> exc]
             ELSE IF o.status # 200
             THEN try_paths(site, max_retries, k + 1, urls, got)
             ELSE LET r == read_sitemap(site, o.body, max_retries, urls, got)
                  IN  IF r.urls # <<>>
                      THEN [urls |-> r.urls, events |-> r.events,
                            raised |-> FALSE, exc |-> "None"]
                      ELSE try_paths(site, max_retries, k + 1, r.urls, r.events)

\* CyberSecGuruScraper._try_sitemaps()
_try_sitemaps(site, max_retries) == try_paths(site, max_retries, 1, <<>>, <<>>)

\* a scraper and the site it will meet
CsgInit ==
    /\ StoreIdle
    /\ \E site \in Sites : call = [op |-> "ready", site |-> site]

\* the call of _try_sitemaps
TrySitemapsCall ==
    /\ call.op = "ready"
    /\ call' = [op |-> "_try_sitemaps", site |-> call.site,
                res |-> _try_sitemaps(call.site, MAX_RETRIES)]
    /\ UNCHANGED <<storeVars, run>>

CsgNext == TrySitemapsCall

SpecCsg == CsgInit /\ [][CsgNext]_vars

\* --------------------------------------- claims on the sitemap discovery

TriedSitemaps == call.op = "_try_sitemaps"

\* the path answers 200 with a sitemap index
IsIndexAnswer(o) ==
    /\ o.kind = "response"
    /\ o.status = 200
    /\ o.body.xml = "ok"
    /\ \E i \in 1..Len(o.body.entries) :
           o.body.entries[i].parent = "sitemap" /\ o.body.entries[i].ns

\* the path gives no URL: no answer, no 200, no document, no <loc> text
YieldsNothing(o) ==
    \/ o.kind = "error"
    \/ o.status # 200
    \/ o.body.xml # "ok"
    \/ (~IsIndexAnswer(o) /\ TextsOf(o.body.entries) = <<>>)

\* the k-th path is probed and answers with a sitemap index
IndexProbedAt(k) ==
    /\ k \in 1..Len(SitemapPaths)
    /\ IsIndexAnswer(call.site.paths[k])
    /\ \A j \in 1..(k - 1) : YieldsNothing(call.site.paths[j])

\* the attempts parse_xml_sitemap makes on a child: up to its first success
ChildAttempts(url) ==
    LET outs == answers(call.site, url)
    IN  IF \E k \in 1..MAX_RETRIES : FirstSuccessAt(outs, k)
        THEN CHOOSE k \in 1..MAX_RETRIES : FirstSuccessAt(outs, k)
        ELSE MAX_RETRIES

\* the <loc> texts of a child: those of the document its fetch ends with
ChildLocs(url) ==
    LET outs == answers(call.site, url)
    IN  IF \E k \in 1..MAX_RETRIES : FirstSuccessAt(outs, k)
        THEN LET k == CHOOSE k \in 1..MAX_RETRIES : FirstSuccessAt(outs, k)
             IN  IF outs[k].body.xml = "ok" THEN TextsOf(outs[k].body.entries)
                 ELSE <<>>
        ELSE <<>>

\* the requests the children of an index call for, in index order
RECURSIVE ChildRequests(_)
ChildRequests(entries) ==
    IF entries = <<>> THEN <<>>
    ELSE [i \in 1..ChildAttempts(Head(entries).text) |-> Head(entries).text]
         \o ChildRequests(Tail(entries))

\* the URLs requested, in order
RequestedUrls(events) ==
    LET gets == SelectSeq(events, LAMBDA e : e.ev = "get")
    IN  [i \in 1..Len(gets) |-> gets[i].url]

\* C16: when a probed candidate path answers with a sitemap index,
\* _try_sitemaps fetches every child of the index in index order, a child
\* that cannot be fetched or parsed contributes nothing and does not stop the
\* others, and the URLs the children give are the result.
C16_IndexChildrenFetched ==
    TriedSitemaps =>
        \A k \in 1..Len(SitemapPaths) :
            IndexProbedAt(k) =>
                LET children == call.site.paths[k].body.entries
                    wanted == ChildRequests(children)
                    asked == RequestedUrls(call.res.events)
                    found == UNION { Elems(ChildLocs(children[i].text)) :
                                       i \in 1..Len(children) }
                IN  /\ Len(asked) >= k + Len(wanted)
                    /\ SubSeq(asked, k + 1, k + Len(wanted)) = wanted
                    /\ found # {} => /\ Elems(call.res.urls) = found
                                     /\ Len(asked) = k + Len(wanted)

\* C16 witness: an index whose first child fails every attempt and whose
\* second child is answered on the last attempt
C16_Witness ==
    /\ TriedSitemaps
    /\ IndexProbedAt(2)
    /\ call.site.paths[2].body.entries = <<SitemapEntry(<<"c1">>), SitemapEntry(<<"c2">>)>>
    /\ call.site.children[<<"c1">>][1] = Response(500, MalformedBody)
    /\ call.site.children[<<"c2">>][1].kind = "error"
    /\ call.res.urls = << <<"data-breach">>, <<"DATA-BREACH">> >>

\* ------------------------------------------- recency window of a lastmod

\* instants are minutes of the UTC time line, day 0 beginning at minute 0;
\* the minutes of a day
Day == 1440

\* how many days a lastmod lies before or after the day of the clock
MaxDaysApart == 2

\* the day of the clock, so that no instant met lies before day 0
Today == MaxDaysApart + 1

\* the minutes of a day a clock or a lastmod shows
Minutes == { 0, 1, 330, 719, 720, 721, 1439 }

\* the zone suffixes of a timestamp and the minutes each is ahead of UTC
Zones == { "none", "Z", "+00:00", "+05:30", "-05:00" }
utcoffset(tz) ==
    CASE tz = "+05:30" -> 330
      [] tz = "-05:00" -> 0 - 300
      [] OTHER -> 0

\* a lastmod text: no text at all, text that is no date, a date, a timestamp
\* (pad: blanks around the text; secs: seconds written; gap: a blank before
\* the zone; extra: a second ":00" before the zone)
NoText == [form |-> "None"]
NotADate == [form |-> "text", txt |-> "not-a-date"]
EmptyText == [form |-> "text", txt |-> ""]
DateText(day, pad) == [form |-> "date", day |-> day, pad |-> pad]
TimestampText(day, minute, secs, gap, tz) ==
    [form |-> "timestamp", day |-> day, minute |-> minute, secs |-> secs,
     extra |-> FALSE, gap |-> gap, tz |-> tz]

LastmodTexts ==
    { NoText, NotADate, EmptyText }
    \cup { DateText(d, pad) :
             d \in (Today - MaxDaysApart)..(Today + MaxDaysApart), pad \in BOOLEAN }
    \cup { TimestampText(d, m, secs, gap, tz) :
             d \in (Today - MaxDaysApart)..(Today + MaxDaysApart), m \in Minutes,
             secs \in BOOLEAN, gap \in BOOLEAN, tz \in Zones }

\* lastmod_text.strip().replace("Z", "+00:00")
strip_replace_z(t) ==
    CASE t.form = "date" -> [t EXCEPT !.pad = FALSE]
      [] t.form = "timestamp" ->
            [t EXCEPT !.tz = IF @ = "Z" THEN "+00:00" ELSE @,
                      !.gap = IF t.tz = "none" THEN FALSE ELSE @]
      [] OTHER -> t

\* re.sub(r"\s+([+-]\d{2}:\d{2})$", r"\1", txt)
close_gap(t) ==
    IF t.form = "timestamp" /\ t.tz # "none" THEN [t EXCEPT !.gap = FALSE]
    ELSE t

\* re.fullmatch(r"\d{4}-\d{2}-\d{2}", txt)
is_date_only(t) == t.form = "date" /\ ~t.pad

\* re.sub(r"(\d{2}:\d{2})([+-]\d{2}:\d{2})$", r"\1:00\2", txt): the two
\* digit pairs before the zone are the hour and minute, or the minute and
\* the seconds where seconds are written
add_seconds(t) ==
    IF t.form = "timestamp" /\ t.tz \notin {"none", "Z"} /\ ~t.gap
    THEN IF t.secs THEN [t EXCEPT !.extra = TRUE] ELSE [t EXCEPT !.secs = TRUE]
    ELSE t

\* datetime.fromisoformat(txt): the wall-clock minute and the zone; a second
\* ":00" before a zone is read as an empty fraction of a second
fromisoformat_raises(t) ==
    \/ t.form = "text"
    \/ t.form = "date" /\ t.pad
    \/ t.form = "timestamp" /\ (t.gap \/ t.tz = "Z" \/ (t.extra /\ t.tz = "none"))
fromisoformat(t) ==
    IF t.form = "date" THEN [wall |-> t.day * Day, tz |-> "none"]
    ELSE [wall |-> t.day * Day + t.minute, tz |-> t.tz]

\* an aware datetime as an instant of the UTC time line
instant(dt) == dt.wall - utcoffset(dt.tz)

\* lastmod.replace(tzinfo=timezone.utc)
replace_tzinfo_utc(dt) == [dt EXCEPT !.tz = "+00:00"]

\* lines 231-248: the lastmod instant, or the exception raised on the way
parse_lastmod(lastmod_text) ==
    IF lastmod_text.form = "None"
    THEN [raised |-> TRUE, exc |-> "AttributeError"]
    ELSE LET txt == close_gap(strip_replace_z(lastmod_text))
         IN  IF is_date_only(txt)
             THEN [raised |-> FALSE,
                   lastmod |-> instant(replace_tzinfo_utc(fromisoformat(txt)))]
             ELSE LET txt2 == add_seconds(txt)
                  IN  IF fromisoformat_raises(txt2)
                      THEN [raised |-> TRUE, exc |-> "ValueError"]
                      ELSE LET dt == fromisoformat(txt2)
                           IN  [raised |-> FALSE,
                                lastmod |-> instant(IF dt.tz = "none"
                                                    THEN replace_tzinfo_utc(dt)
                                                    ELSE dt)]

\* the same instant, no day taken off
minus_no_day(t) == t

\* now - timedelta(days=1)
minus_one_day(t) == t - Day

\* the instant left as it is
replace_nothing(t) == t

\* .replace(hour=0, minute=0, second=0, microsecond=0) of a UTC datetime
replace_midnight(t) == (t \div Day) * Day

\* yesterday = (now - timedelta(days=1)).replace(hour=0, ...)
yesterday_of(utcnow) == replace_midnight(minus_one_day(utcnow))

\* an `except ValueError:` in the place of `except Exception:`
recency_catches_value_error(exc) == exc = "ValueError"

\* except Exception:
recency_catches(exc) == TRUE

\* BaseScraper._is_within_yesterday_to_now(lastmod_text), the clock at utcnow
_is_within_yesterday_to_now(lastmod_text, utcnow) ==
    LET p == parse_lastmod(lastmod_text)
    IN  IF p.raised
        THEN IF recency_catches(p.exc)
             THEN [raised |-> FALSE, result |-> FALSE]
             ELSE [raised |-> TRUE, exc |-> p.exc]
        ELSE [raised |-> FALSE,
              result |-> yesterday_of(utcnow) <= p.lastmod /\ p.lastmod <= utcnow]

\* a scraper, a lastmod text to judge, and the clock on day Today
RecencyInit ==
    /\ StoreIdle
    /\ \E lastmod_text \in LastmodTexts : \E minute \in Minutes :
          call = [op |-> "ready", lastmod_text |-> lastmod_text,
                  utcnow |-> Today * Day + minute]

\* the call of _is_within_yesterday_to_now
RecencyCall ==
    /\ call.op = "ready"
    /\ call' = [op |-> "_is_within_yesterday_to_now",
                lastmod_text |-> call.lastmod_text, utcnow |-> call.utcnow,
                res |-> _is_within_yesterday_to_now(call.lastmod_text, call.utcnow)]
    /\ UNCHANGED <<storeVars, run>>

RecencyNext == RecencyCall

SpecRecency == RecencyInit /\ [][RecencyNext]_vars

\* ------------------------------------------ claims on the recency window

Judged == call.op = "_is_within_yesterday_to_now"

\* the text is a date or a timestamp
WellFormed(t) == t.form \in {"date", "timestamp"}

\* the instant a well-formed lastmod text names: a date is its 00:00 UTC, a
\* timestamp its wall-clock time less what its zone is ahead of UTC
InstantOf(t) ==
    IF t.form = "date" THEN t.day * Day
    ELSE t.day * Day + t.minute - utcoffset(t.tz)

\* 00:00 UTC of the day before the day of the clock
StartOfYesterday(utcnow) == (utcnow \div Day) * Day - Day

\* the call returned TRUE
Kept == ~call.res.raised /\ call.res.result

\* the call returned FALSE
Dropped == ~call.res.raised /\ ~call.res.result

\* C17: _is_within_yesterday_to_now returns true exactly when the lastmod
\* instant t has start-of-yesterday 00:00 UTC <= t <= now, both bounds
\* included; a bare date counts as 00:00 UTC of that date.
C17_WindowPredicate ==
    (Judged /\ WellFormed(call.lastmod_text)) =>
        LET t == InstantOf(call.lastmod_text)
        IN  /\ ~call.res.raised
            /\ call.res.result <=>
                  (StartOfYesterday(call.utcnow) <= t /\ t <= call.utcnow)

\* C17 witness: a timestamp in another zone that names exactly 00:00 UTC of
\* yesterday is kept
C17_Witness ==
    /\ Judged
    /\ call.lastmod_text = TimestampText(Today - 1, 330, TRUE, FALSE, "+05:30")
    /\ call.utcnow = Today * Day + 720
    /\ Kept

\* the clock shows 12:00 UTC of day Today
AtNoon == call.utcnow = Today * Day + 720

\* the lastmod text is a UTC timestamp of the given day and minute
IsUtcTimestamp(t, day, minute) ==
    /\ t.form = "timestamp"
    /\ t.tz \in {"Z", "+00:00"}
    /\ t.day = day
    /\ t.minute = minute

\* C18 as stated: at 12:00 UTC of day D a lastmod of 23:59 UTC of day D-1 is
\* dropped, and those of 00:00 UTC of day D and of now are kept.
C18_LateYesterdayDropped ==
    (Judged /\ AtNoon) =>
        /\ IsUtcTimestamp(call.lastmod_text, Today - 1, 1439) => Dropped
        /\ IsUtcTimestamp(call.lastmod_text, Today, 0) => Kept
        /\ IsUtcTimestamp(call.lastmod_text, Today, 720) => Kept

\* C18 amended: at 12:00 UTC of day D the lastmods of 23:59 UTC of day D-1,
\* of 00:00 UTC of day D and of now are all kept; one of 23:59 UTC of day
\* D-2 is dropped.
C18_LateYesterdayKept ==
    (Judged /\ AtNoon) =>
        /\ IsUtcTimestamp(call.lastmod_text, Today - 1, 1439) => Kept
        /\ IsUtcTimestamp(call.lastmod_text, Today, 0) => Kept
        /\ IsUtcTimestamp(call.lastmod_text, Today, 720) => Kept
        /\ IsUtcTimestamp(call.lastmod_text, Today - 2, 1439) => Dropped

\* C18 witness: 23:59Z of the day before, judged at noon, is kept
C18_Witness ==
    /\ Judged
    /\ AtNoon
    /\ call.lastmod_text = TimestampText(Today - 1, 1439, TRUE, FALSE, "Z")
    /\ Kept

\* C19: a lastmod that is malformed or missing is judged not in the window:
\* the call returns false and raises nothing.
C19_MalformedExcluded ==
    (Judged /\ ~WellFormed(call.lastmod_text)) => Dropped

\* C19 witness: an entry without lastmod text is dropped
C19_Witness ==
    /\ Judged
    /\ call.lastmod_text = NoText
    /\ Dropped

\* ------------------------------------ keyword filter of JoinClassActions

\* URLs as the sitemap of JoinClassActions may list them: a host, then "/"
\* and the path, then "?" and the query; the piece "data-breach" is the
\* keyword, "DATA-BREACH" the same in capitals
JcaTexts ==
    { <<"h", "/", "p">>, <<"h", "/", "data-breach">>,
      <<"h", "/", "DATA-BREACH">>, <<" ", "h", "/", "data-breach">>,
      <<"data-breach", "/", "p">>, <<"h", "/", "p", "?", "data-breach">> }

\* the sitemaps answered: up to MaxLocs <url><loc> elements
JcaDocuments ==
    { Document([i \in 1..Len(t) |-> UrlEntry(t[i])]) :
        t \in UNION { [1..n -> JcaTexts] : n \in 0..MaxLocs } }

\* what the requests of the sitemap end in: answered at once, answered
\* after a failure, or never answered
JcaAnswers ==
    { [i \in 1..MAX_RETRIES |-> Response(200, d)] : d \in JcaDocuments }
    \cup { [i \in 1..MAX_RETRIES |->
              IF i = 1 THEN NetError("Timeout") ELSE Response(200, d)] :
            d \in JcaDocuments }
    \cup { [i \in 1..MAX_RETRIES |-> Response(404, MalformedBody)] }

\* the scraper of JoinClassActions, and what its sitemap will answer
JcaInit ==
    /\ StoreIdle
    /\ \E outs \in JcaAnswers : call = [op |-> "ready", outs |-> outs]

JcaNext == JcaScrapeCall

SpecJca == JcaInit /\ [][JcaNext]_vars

\* ---------------------------------------- claims on the keyword filter

JcaScraped == call.op = "jca_scrape"

\* what the parser gives for the sitemap
ParserUrls == parse_xml_sitemap(JcaSitemapUrl, call.outs, MAX_RETRIES).urls

\* the path of a URL: from the first "/" to the "?" of the query
PathOf(u) ==
    LET slashes == { i \in 1..Len(u) : u[i] = "/" }
        marks == { i \in 1..Len(u) : u[i] = "?" }
        from == IF slashes = {} THEN Len(u) + 1
                ELSE CHOOSE i \in slashes : \A j \in slashes : i <= j
        to == IF marks = {} THEN Len(u)
              ELSE (CHOOSE i \in marks : \A j \in marks : i <= j) - 1
    IN  SubSeq(u, from, to)

\* the keyword is in the path of the URL, in small or capital letters
KeywordInPath(u) ==
    \E i \in 1..Len(PathOf(u)) : PathOf(u)[i] \in {"data-breach", "DATA-BREACH"}

\* the keyword is somewhere in the URL, in small or capital letters
KeywordInUrl(u) == \E i \in 1..Len(u) : u[i] \in {"data-breach", "DATA-BREACH"}

\* C21 as stated: scrape returns exactly the parser's URLs whose path
\* contains the keyword, in the parser's order and without duplicates.
C21_KeywordInPathOnly ==
    JcaScraped =>
        call.res.urls = Collapse(SelectSeq(ParserUrls, KeywordInPath))

\* C21 amended: scrape returns exactly the parser's URLs that contain the
\* keyword anywhere in the URL, capitals counting as small letters, in the
\* parser's order and without duplicates.
C21_KeywordAnywhere ==
    JcaScraped =>
        /\ ~call.res.raised
        /\ call.res.urls = Collapse(SelectSeq(ParserUrls, KeywordInUrl))

\* C21 witness: a URL with the keyword in its host only is returned beside
\* one with the keyword, in capitals, in its path
C21_Witness ==
    /\ JcaScraped
    /\ call.res.urls = << <<"data-breach", "/", "p">>, <<"h", "/", "DATA-BREACH">> >>

\* ------------------------------------------ claims on the probing order

\* the candidate paths in the order stated
CandidateOrder ==
    << "/sitemap.xml", "/sitemap_index.xml", "/post-sitemap.xml",
       "/page-sitemap.xml" >>

CandidateUrl(j) == <<"https://thecybersecguru.com", CandidateOrder[j]>>

\* what the site answers a probe of the j-th candidate
CandidateAnswer(site, j) == answers(site, CandidateUrl(j))[1]

\* the URLs the children of an index give, child after child
RECURSIVE ChildrenUrls(_)
ChildrenUrls(entries) ==
    IF entries = <<>> THEN <<>>
    ELSE Collapse(ChildLocs(Head(entries).text)) \o ChildrenUrls(Tail(entries))

\* the URLs the j-th candidate gives when probed: none unless it answers 200
\* with a document; the <loc> texts of a urlset; the URLs of the children of
\* an index
CandidateYield(site, j) ==
    LET o == CandidateAnswer(site, j)
    IN  IF o.kind = "error" THEN <<>>
        ELSE IF o.status # 200 \/ o.body.xml # "ok" THEN <<>>
        ELSE IF IsIndexAnswer(o) THEN ChildrenUrls(o.body.entries)
        ELSE TextsOf(o.body.entries)

\* the candidates that give a URL
Yielding(site) == { j \in 1..Len(CandidateOrder) : CandidateYield(site, j) # <<>> }

\* the candidate the probing stops at: the first that gives a URL, or the
\* last one
StopsAt(site) ==
    IF Yielding(site) = {} THEN Len(CandidateOrder)
    ELSE CHOOSE j \in Yielding(site) : \A i \in Yielding(site) : j <= i

\* the places of a URL among the requests
PlacesOf(asked, url) == { i \in 1..Len(asked) : asked[i] = url }

\* C23: _try_sitemaps requests the candidate paths in the fixed order, up to
\* and including the first that answers 200 and gives a URL; it returns that
\* candidate's URLs and requests no later candidate. A candidate that
\* answers 200 without a URL does not stop the probing.
C23_ProbingOrder ==
    TriedSitemaps =>
        LET asked == RequestedUrls(call.res.events)
            K == StopsAt(call.site)
        IN  /\ asked # <<>> /\ asked[1] = CandidateUrl(1)
            /\ \A j \in 1..Len(CandidateOrder) :
                   (PlacesOf(asked, CandidateUrl(j)) # {}) <=> (j <= K)
            /\ \A j \in 2..Len(CandidateOrder) :
                   Cardinality(PlacesOf(asked, CandidateUrl(j))) <= 1
            /\ \A i, j \in 1..K :
                   i < j =>
                       \E m \in PlacesOf(asked, CandidateUrl(i)) :
                           \A n \in PlacesOf(asked, CandidateUrl(j)) : m < n
            /\ call.res.urls = IF Yielding(call.site) = {} THEN <<>>
                               ELSE CandidateYield(call.site, K)

\* C23 witness: the first candidate answers 200 with an empty document, the
\* second gives URLs, the third and fourth are never requested
C23_Witness ==
    /\ TriedSitemaps
    /\ call.site.paths[1] = Response(200, Document(<<>>))
    /\ call.site.paths[2] = Response(200, PagesDocument)
    /\ call.site.paths[3] = Response(200, PagesDocument)
    /\ RequestedUrls(call.res.events) = <<CandidateUrl(1), CandidateUrl(2)>>
    /\ call.res.urls = << <<"p">>, <<"p">> >>

\* ------------------------------------------- homepage of CyberSecGuru

\* most <a href> elements on one homepage
MaxLinks == 2

\* the href values met, piece by piece: site-relative, protocol-relative,
\* absolute on the site, absolute on a host that begins with the site's
\* host, absolute elsewhere, the site over http, no URL, empty
Hrefs ==
    { <<"/", "x">>,
      <<"//", "other.example", "/", "x">>,
      <<"https://thecybersecguru.com", "/", "x">>,
      <<"https://thecybersecguru.com", ".evil.com", "/", "z">>,
      <<"https://other.example", "/", "w">>,
      <<"http://thecybersecguru.com", "/", "x">>,
      <<"mailto:", "a">>,
      <<>> }

\* response.content of the homepage: the href values of its <a href>
\* elements, in document order
Page(hrefs) == [html |-> "ok", hrefs |-> hrefs]

Pages == { Page(h) : h \in UNION { [1..n -> Hrefs] : n \in 0..MaxLinks } }

\* href.startswith('/')
startswith_slash(href) == href # <<>> /\ href[1] \in {"/", "//"}

\* href.startswith('http')
startswith_http(href) ==
    /\ href # <<>>
    /\ href[1] \in {"https://thecybersecguru.com", "https://other.example",
                    "http://thecybersecguru.com"}

\* href.startswith(self.site_url)
startswith_site_url(href) ==
    Len(href) >= Len(SiteUrl) /\ SubSeq(href, 1, Len(SiteUrl)) = SiteUrl

\* the loop over soup.find_all('a', href=True)
RECURSIVE homepage_links(_)
homepage_links(hrefs) ==
    IF hrefs = <<>> THEN <<>>
    ELSE LET href == Head(hrefs)
             rest == homepage_links(Tail(hrefs))
         IN  IF startswith_slash(href)
             THEN LET abs == rstrip_slash(SiteUrl) \o href
                  IN  IF startswith_site_url(abs) THEN <<abs>> \o rest ELSE rest
             ELSE IF ~startswith_http(href) THEN rest
             ELSE IF startswith_site_url(href) THEN <<href>> \o rest
             ELSE rest

\* CyberSecGuruScraper._scrape_homepage(); outs is what the requests of the
\* homepage end in
_scrape_homepage(outs, max_retries) ==
    LET f == _fetch_with_retry(SiteUrl, outs, max_retries)
    IN  IF f.raised
        THEN [urls |-> <<>>, events |-> f.events,
              raised |-> ~except_Exception(fetch_exception(f.exc)),
              exc |-> fetch_exception(f.exc)]
        ELSE [urls |-> dict_fromkeys(homepage_links(f.resp.body.hrefs)),
              events |-> f.events, raised |-> FALSE, exc |-> "None"]

\* what the requests of the homepage end in: answered at once, answered
\* after a failure, or never answered
HomeAnswers ==
    { [i \in 1..MAX_RETRIES |-> Response(200, pg)] : pg \in Pages }
    \cup { [i \in 1..MAX_RETRIES |->
              IF i = 1 THEN NetError("Timeout") ELSE Response(200, pg)] :
            pg \in Pages }
    \cup { [i \in 1..MAX_RETRIES |-> Response(500, Page(<<>>))],
           [i \in 1..MAX_RETRIES |-> NetError("ConnectionError")] }

\* a scraper and what its homepage will answer
HomeInit ==
    /\ StoreIdle
    /\ \E outs \in HomeAnswers : call = [op |-> "ready", outs |-> outs]

\* the call of _scrape_homepage
ScrapeHomepageCall ==
    /\ call.op = "ready"
    /\ call' = [op |-> "_scrape_homepage", outs |-> call.outs,
                res |-> _scrape_homepage(call.outs, MAX_RETRIES)]
    /\ UNCHANGED <<storeVars, run>>

HomeNext == ScrapeHomepageCall

SpecHome == HomeInit /\ [][HomeNext]_vars

\* ------------------------------------------------ claims on the homepage

HomeScraped == call.op = "_scrape_homepage"

\* the host of an absolute URL is the site's: the URL is the site's root,
\* alone or followed by a path
OnSiteHost(u) ==
    /\ u # <<>>
    /\ u[1] = "https://thecybersecguru.com"
    /\ Len(u) >= 2 => u[2] \in {"/", "//"}

\* the links of the page the homepage answered with
AnsweredHrefs ==
    LET k == CHOOSE k \in 1..MAX_RETRIES : FirstSuccessAt(call.outs, k)
    IN  call.outs[k].body.hrefs

\* C24: every URL _scrape_homepage returns has the site's own host, also
\* when a link's host merely begins with the site's host; a site-relative
\* href is returned as the site root followed by the href.
C24_OnlyOwnHost ==
    HomeScraped =>
        /\ \A i \in 1..Len(call.res.urls) : OnSiteHost(call.res.urls[i])
        /\ (\E k \in 1..MAX_RETRIES : FirstSuccessAt(call.outs, k)) =>
               \A i \in 1..Len(AnsweredHrefs) :
                   startswith_slash(AnsweredHrefs[i]) =>
                       \E j \in 1..Len(call.res.urls) :
                           call.res.urls[j] =
                               <<"https://thecybersecguru.com">> \o AnsweredHrefs[i]

\* --------------------------------------------- scrape of CyberSecGuru

\* the fallback, were it taken whatever the sitemaps gave
falls_back_always(urls) == TRUE

\* `if not urls:` of scrape
falls_back(urls) == urls = <<>>

\* CyberSecGuruScraper.scrape(); home is what the requests of the homepage
\* end in
csg_scrape(site, home, max_retries) ==
    LET t == _try_sitemaps(site, max_retries)
    IN  IF t.raised
        THEN [urls |-> <<>>, events |-> t.events,
              raised |-> ~except_Exception(t.exc)]
        ELSE IF falls_back(t.urls)
        THEN LET h == _scrape_homepage(home, max_retries)
             IN  [urls |-> IF h.raised THEN <<>> ELSE h.urls,
                  events |-> t.events \o h.events,
                  raised |-> h.raised /\ ~except_Exception(h.exc)]
        ELSE [urls |-> t.urls, events |-> t.events, raised |-> FALSE]

\* the sites scrape is tried on: those whose child sitemaps answer alike
ScrapeSites ==
    { site \in Sites : \A c, d \in ChildSitemapUrls :
                           site.children[c] = site.children[d] }

\* what the homepage answers during a scrape
ScrapeHomes ==
    { [i \in 1..MAX_RETRIES |-> Response(200, Page(<< <<"/", "x">> >>))],
      [i \in 1..MAX_RETRIES |->
          IF i = 1 THEN NetError("Timeout")
          ELSE Response(200, Page(<< <<"/", "x">>, <<"mailto:", "a">> >>))],
      [i \in 1..MAX_RETRIES |-> NetError("ConnectionError")] }

\* a scraper, the site and the homepage it will meet
CsgScrapeInit ==
    /\ StoreIdle
    /\ \E site \in ScrapeSites : \E home \in ScrapeHomes :
          call = [op |-> "ready", site |-> site, home |-> home]

\* the call of scrape
CsgScrapeCall ==
    /\ call.op = "ready"
    /\ call' = [op |-> "csg_scrape", site |-> call.site, home |-> call.home,
                res |-> csg_scrape(call.site, call.home, MAX_RETRIES)]
    /\ UNCHANGED <<storeVars, run>>

CsgScrapeNext == CsgScrapeCall

SpecCsgScrape == CsgScrapeInit /\ [][CsgScrapeNext]_vars

\* ------------------------------------- claims on the homepage fallback

CsgScraped == call.op = "csg_scrape"

\* the homepage was requested during the call
HomepageRequested ==
    PlacesOf(RequestedUrls(call.res.events), <<"https://thecybersecguru.com">>) # {}

\* C22: within one scrape the homepage is fetched if and only if no
\* candidate sitemap path gave a URL; when a candidate gave one, the
\* homepage is never requested and the result is that candidate's.
C22_FallbackIffNoSitemap ==
    CsgScraped =>
        /\ HomepageRequested <=> (Yielding(call.site) = {})
        /\ Yielding(call.site) # {} =>
               call.res.urls = CandidateYield(call.site, StopsAt(call.site))

\* C22 witness: every candidate fails or is empty, and the homepage,
\* answered at the second attempt, gives the result
C22_Witness ==
    /\ CsgScraped
    /\ Yielding(call.site) = {}
    /\ call.site.paths[1] = Response(200, Document(<<>>))
    /\ call.home[1] = NetError("Timeout")
    /\ HomepageRequested
    /\ call.res.urls = << <<"https://thecybersecguru.com", "/", "x">> >>

\* ----------------------------------------- claims on failed store writes

\* C29: when add_urls fails because the store file cannot be written, the
\* sequence held in memory is the one from before the call, so the same
\* candidates are new again on the next add_urls of this store.
C29_UnchangedOnWriteError ==
    (AddCalled /\ last.raised) =>
        /\ data.urls = last.preData.urls
        /\ truly_new(last.arg, get_seen_urls(data)) =
               truly_new(last.arg, get_seen_urls(last.preData))

\* ------------------------------------------------- damaged store files

\* a store file json.load does not turn into the expected dictionary: bytes
\* that are not UTF-8, a JSON array, an object without "urls", an object
\* whose "urls" is a number, an object whose "metadata" is a number, an
\* object without "metadata"
Shapes ==
    { "not_utf8", "array", "no_urls", "urls_number", "bad_metadata",
      "no_metadata" }
DamagedFile(shape) == [kind |-> "damaged", shape |-> shape]

\* the exception _load ends with: open/json.load raise UnicodeDecodeError,
\* data.get fails on an array, len fails on a number; JSONDecodeError is
\* handled and does not leave _load
load_exception(f) ==
    IF f.kind # "damaged" THEN "None"
    ELSE CASE f.shape = "not_utf8" -> "UnicodeDecodeError"
           [] f.shape = "array" -> "AttributeError"
           [] f.shape = "urls_number" -> "TypeError"
           [] OTHER -> "None"

\* the dictionary _load returns for a file it accepts; the keys of
\* "metadata" are kept beside "urls", a "metadata" that is no dictionary is
\* kept under its own key
load_dict(f, t) ==
    IF f.kind # "damaged" THEN _load(f, t)
    ELSE CASE f.shape = "no_urls" -> <<>>
           [] f.shape = "bad_metadata" -> [urls |-> << <<"a">> >>, metadata |-> 5]
           [] OTHER -> [urls |-> << <<"a">> >>]

\* the exception get_stats ends with: .get on a "metadata" that is no
\* dictionary
get_stats_exception(d) ==
    IF "metadata" \in DOMAIN d THEN "AttributeError" ELSE "None"

\* self.data.get("urls", []) as a set
seen_or_empty(d) == IF "urls" \in DOMAIN d THEN get_seen_urls(d) ELSE {}

\* the exception add_urls ends with before any write: self.data["urls"] is
\* missing, self.data["metadata"] is a number or is missing
add_urls_exception(d, new_urls) ==
    IF ~must_save(truly_new(new_urls, seen_or_empty(d))) THEN "None"
    ELSE IF "urls" \notin DOMAIN d THEN "KeyError"
    ELSE IF "metadata" \in DOMAIN d THEN "TypeError"
    ELSE IF "last_updated" \notin DOMAIN d THEN "KeyError"
    ELSE "None"

\* a store file, damaged or not, and no store object yet
DamagedInit ==
    /\ file \in {AbsentFile, CorruptFile} \cup { DamagedFile(sh) : sh \in Shapes }
    /\ now = 0
    /\ data = <<>>
    /\ last = [op |-> "none", arg |-> <<>>, ret |-> <<>>, raised |-> FALSE,
               wrote |-> FALSE, outcome |-> "none",
               preData |-> <<>>, preFile |-> file]
    /\ repeat = FALSE
    /\ loadedFrom = "none"
    /\ admitted = <<>>
    /\ call = NoCall
    /\ run = NoRun

\* URLStorage.__init__ on the file: the object exists only if _load returns
DamagedLoad ==
    /\ loadedFrom = "none"
    /\ last.op = "none"
    /\ IF load_exception(file) # "None"
       THEN /\ last' = Call("load", <<>>, <<>>, TRUE, FALSE, load_exception(file))
            /\ UNCHANGED <<data, now, loadedFrom>>
       ELSE /\ data' = load_dict(file, now)
            /\ now' = now + load_ticks(file)
            /\ loadedFrom' = file.kind
            /\ last' = Call("load", <<>>, <<>>, FALSE, FALSE, "none")
    /\ UNCHANGED <<file, repeat, admitted, call, run>>

\* get_stats() on the store object
DamagedGetStats ==
    /\ loadedFrom # "none"
    /\ last' = Call("get_stats", <<>>, <<>>, get_stats_exception(data) # "None",
                    FALSE, get_stats_exception(data))
    /\ UNCHANGED <<file, data, now, repeat, loadedFrom, admitted, call, run>>

\* add_urls(new_urls) on the store object, the disk accepting every write
DamagedAddUrls ==
    \E new_urls \in Candidates :
        /\ loadedFrom # "none"
        /\ IF add_urls_exception(data, new_urls) # "None"
           THEN /\ last' = Call("add_urls", new_urls, <<>>, TRUE, FALSE,
                                add_urls_exception(data, new_urls))
                /\ data' = IF "urls" \in DOMAIN data
                           THEN [data EXCEPT !.urls =
                                    extend(@, truly_new(new_urls, get_seen_urls(data)))]
                           ELSE data
                /\ "urls" \in DOMAIN data => Len(data'.urls) <= MaxStored
                /\ UNCHANGED <<file, now, admitted>>
           ELSE IF "urls" \in DOMAIN data /\ "last_updated" \in DOMAIN data
           THEN AddUrls(new_urls, "ok")
           ELSE /\ last' = Call("add_urls", new_urls, <<>>, FALSE, FALSE, "none")
                /\ UNCHANGED <<file, data, now, admitted>>
        /\ repeat' = (last.op = "add_urls" /\ last.arg = new_urls)
        /\ UNCHANGED <<loadedFrom, call, run>>

DamagedNext == DamagedLoad \/ DamagedGetStats \/ DamagedAddUrls

SpecDamaged == DamagedInit /\ [][DamagedNext]_vars

\* --------------------------------------- claims on damaged store files

\* C30: whatever the backing file holds, building the store, get_stats and
\* add_urls complete without raising.
C30_DamagedNeverRaises ==
    last.op \in {"load", "get_stats", "add_urls"} => ~last.raised

\* ------------------------------------------------------ the run of main()

\* the sources in the order main() scrapes and processes them
Sources == << "classactions_sitemap", "rankiteo_blog", "dexpose", "cybersecguru" >>

NSources == Len(Sources)

\* RankiteoScraper.scrape() and DexposeScraper.scrape(): a list of URLs,
\* possibly empty, and no exception
other_scrape(found) == [urls |-> found, raised |-> FALSE]

\* what the sitemap of JoinClassActions answers during a run
RunJcaAnswers ==
    { [i \in 1..MAX_RETRIES |->
          Response(200, Document(<<UrlEntry(<<"h", "/", "data-breach">>)>>))],
      [i \in 1..MAX_RETRIES |-> Response(404, MalformedBody)],
      [i \in 1..MAX_RETRIES |-> Response(200, MalformedBody)],
      [i \in 1..MAX_RETRIES |-> Response(200, UnexpectedBody)],
      [i \in 1..MAX_RETRIES |-> NetError("ConnectionError")] }

\* the sites of CyberSecGuru during a run: a malformed first sitemap before
\* a good one, an index whose children fail, or nothing that answers
RunSites ==
    { [paths |-> << Response(200, MalformedBody), Response(200, PagesDocument),
                    NetError("ConnectionError"), NetError("ConnectionError") >>,
       children |-> [c \in ChildSitemapUrls |->
                        [i \in 1..MAX_RETRIES |-> Response(500, MalformedBody)]]],
      [paths |-> << Response(404, MalformedBody),
                    Response(200, Document(<<SitemapEntry(<<"c1">>), SitemapEntry(<<>>)>>)),
                    Response(200, UnexpectedBody), Response(200, Document(<<>>)) >>,
       children |-> [c \in ChildSitemapUrls |->
                        [i \in 1..MAX_RETRIES |-> Response(200, MalformedBody)]]],
      [paths |-> [k \in 1..Len(SitemapPaths) |-> NetError("ConnectionError")],
       children |-> [c \in ChildSitemapUrls |->
                        [i \in 1..MAX_RETRIES |-> Response(500, MalformedBody)]]] }

\* the homepage of CyberSecGuru during a run
RunHome == [i \in 1..MAX_RETRIES |-> NetError("ConnectionError")]

\* what the two other scrapers find during a run
RunFound == { <<>>, << <<"r">> >> }

\* the store file of the first source when a run starts; the other store
\* files are absent
RunFirstFiles == { AbsentFile, DamagedFile("bad_metadata"), DamagedFile("array") }

\* the i-th scrape() call of the dictionary at main.py:112-117
scrape_of(i, inputs) ==
    CASE i = 1 -> jca_scrape(inputs.jca, MAX_RETRIES)
      [] i = 2 -> other_scrape(inputs.rankiteo)
      [] i = 3 -> other_scrape(inputs.dexpose)
      [] i = 4 -> csg_scrape(inputs.csg, RunHome, MAX_RETRIES)

\* the exit status main() returns for an exception it catches
exit_status(exc) == IF exc = "KeyboardInterrupt" THEN 130 ELSE 1

\* main() has not returned
NoExit == 0 - 1

\* main() is called
RunInit ==
    /\ StoreUnused
    /\ call = NoCall
    /\ \E cfg_ok \in BOOLEAN, first \in RunFirstFiles, jca \in RunJcaAnswers,
          csg \in RunSites, rankiteo \in RunFound, dexpose \in RunFound :
          run = [pc |-> "validate", i |-> 1,
                 inputs |-> [cfg_ok |-> cfg_ok, jca |-> jca, csg |-> csg,
                             rankiteo |-> rankiteo, dexpose |-> dexpose],
                 files |-> [k \in 1..NSources |->
                               IF k = 1 THEN first ELSE AbsentFile],
                 stores |-> <<>>,
                 sessions |-> {},
                 scraped |-> <<>>,
                 pending |-> "None",
                 new_urls_by_source |-> <<>>,
                 persisted |-> [k \in 1..NSources |-> <<>>],
                 reported |-> <<>>,
                 sent |-> FALSE,
                 interrupted |-> FALSE,
                 exit |-> NoExit]

\* main() returns `status`
Exits(status) == [run EXCEPT !.pc = "done", !.exit = status]

\* config.validate_config() (main.py:40); ValueError is caught at line 248
Validate ==
    /\ run.pc = "validate"
    /\ run' = IF run.inputs.cfg_ok THEN [run EXCEPT !.pc = "stores"]
              ELSE Exits(exit_status("ValueError"))
    /\ UNCHANGED <<storeVars, call>>

\* the four URLStorage(...) of main.py:47-50; what _load raises is caught at
\* line 254
BuildStores ==
    /\ run.pc = "stores"
    /\ run' = IF \E k \in 1..NSources : load_exception(run.files[k]) # "None"
              THEN Exits(exit_status("Exception"))
              ELSE [run EXCEPT !.pc = "scrapers",
                               !.stores = [k \in 1..NSources |->
                                              load_dict(run.files[k], 0)]]
    /\ UNCHANGED <<storeVars, call>>

\* the four scrapers of main.py:53-76, each opening its requests.Session,
\* and the EmailSender
BuildScrapers ==
    /\ run.pc = "scrapers"
    /\ run' = [run EXCEPT !.pc = "stats", !.sessions = 1..NSources]
    /\ UNCHANGED <<storeVars, call>>

\* the four get_stats() of main.py:88-103; an exception is caught at line 254
ShowStats ==
    /\ run.pc = "stats"
    /\ run' = IF \E k \in 1..NSources : get_stats_exception(run.stores[k]) # "None"
              THEN Exits(exit_status("Exception"))
              ELSE [run EXCEPT !.pc = "scrape", !.i = 1]
    /\ UNCHANGED <<storeVars, call>>

\* the next scrape() of the dictionary at main.py:112-117; an exception
\* leaves the try block for its finally
ScrapeOne ==
    /\ run.pc = "scrape"
    /\ LET r == scrape_of(run.i, run.inputs)
       IN  run' = IF r.raised
                  THEN [run EXCEPT !.pc = "close", !.pending = "Exception"]
                  ELSE [run EXCEPT !.scraped = Append(@, r.urls),
                                   !.i = @ + 1,
                                   !.pc = IF run.i = NSources THEN "close"
                                          ELSE "scrape"]
    /\ UNCHANGED <<storeVars, call>>

\* the finally block of main.py:118-122: the four close(); then the pending
\* exception, if any, reaches the handlers of main()
CloseAll ==
    /\ run.pc = "close"
    /\ run' = IF run.pending # "None"
              THEN [run EXCEPT !.pc = "done", !.sessions = {},
                               !.exit = exit_status(run.pending)]
              ELSE [run EXCEPT !.pc = "process", !.i = 1, !.sessions = {}]
    /\ UNCHANGED <<storeVars, call>>

\* the store and the file of the i-th source after its add_urls(urls), the
\* write of _save ending in `outcome`
add_urls_in_run(d, f, urls, outcome) ==
    LET tn == truly_new(urls, seen_or_empty(d))
        exc == add_urls_exception(d, urls)
    IN  IF ~must_save(tn)
        THEN [data |-> d, file |-> f, ret |-> tn, raised |-> FALSE, new |-> <<>>]
        ELSE IF exc # "None"
        THEN [data |-> IF "urls" \in DOMAIN d
                       THEN [d EXCEPT !.urls = extend(@, tn)] ELSE d,
              file |-> f, ret |-> <<>>, raised |-> TRUE, new |-> <<>>]
        ELSE LET d2 == save_metadata([d EXCEPT !.urls = extend(@, tn)], 1)
             IN  [data |-> d2, file |-> save_file(f, d2, outcome),
                  ret |-> IF save_raises(outcome) THEN <<>> ELSE tn,
                  raised |-> save_raises(outcome),
                  new |-> IF outcome = "ok" THEN tn ELSE <<>>]

\* one "Process ... URLs" section of main.py:133-199
ProcessOne ==
    /\ run.pc = "process"
    /\ \E outcome \in SaveOutcomes :
         LET urls == run.scraped[run.i]
             a == add_urls_in_run(run.stores[run.i], run.files[run.i], urls, outcome)
         IN  /\ (urls = <<>> \/ ~must_save(truly_new(urls, seen_or_empty(run.stores[run.i]))))
                    => outcome = "ok"
             /\ run' = IF urls = <<>>
                       THEN [run EXCEPT !.new_urls_by_source = Append(@, <<>>),
                                        !.i = @ + 1,
                                        !.pc = IF run.i = NSources THEN "email"
                                               ELSE "process"]
                       ELSE IF a.raised
                       THEN [run EXCEPT !.pc = "done",
                                        !.exit = exit_status("Exception"),
                                        !.stores[run.i] = a.data,
                                        !.files[run.i] = a.file]
                       ELSE [run EXCEPT !.new_urls_by_source = Append(@, a.ret),
                                        !.stores[run.i] = a.data,
                                        !.files[run.i] = a.file,
                                        !.persisted[run.i] = a.new,
                                        !.i = @ + 1,
                                        !.pc = IF run.i = NSources THEN "email"
                                               ELSE "process"]
    /\ UNCHANGED <<storeVars, call>>

\* email_sender.send_report(config.EMAIL_TO, new_urls_by_source) of
\* main.py:223-240 and the status returned
SendReport ==
    /\ run.pc = "email"
    /\ \E success \in BOOLEAN :
         run' = [run EXCEPT !.pc = "done", !.reported = run.new_urls_by_source,
                            !.sent = TRUE,
                            !.exit = IF success THEN 0 ELSE 1]
    /\ UNCHANGED <<storeVars, call>>

\* KeyboardInterrupt between two statements of main(): inside the scraping
\* try block it passes through the finally, elsewhere it goes straight to
\* the handler at main.py:251
Interrupt ==
    /\ run.pc \in {"validate", "stores", "scrapers", "stats", "scrape",
                   "process", "email"}
    /\ run' = IF run.pc = "scrape"
              THEN [run EXCEPT !.pc = "close", !.pending = "KeyboardInterrupt",
                               !.interrupted = TRUE]
              ELSE [run EXCEPT !.pc = "done", !.interrupted = TRUE,
                               !.exit = exit_status("KeyboardInterrupt")]
    /\ UNCHANGED <<storeVars, call>>

\* KeyboardInterrupt inside json.dump of _save, the file opened with 'w' and
\* written in part; `except Exception` of _save lets it pass
InterruptWrite ==
    /\ run.pc = "process"
    /\ LET urls == run.scraped[run.i]
           d == run.stores[run.i]
           tn == truly_new(urls, seen_or_empty(d))
       IN  /\ must_save(tn)
           /\ add_urls_exception(d, urls) = "None"
           /\ run' = [run EXCEPT !.pc = "done", !.interrupted = TRUE,
                                 !.exit = exit_status("KeyboardInterrupt"),
                                 !.stores[run.i] =
                                     save_metadata([d EXCEPT !.urls = extend(@, tn)], 1),
                                 !.files[run.i] = CorruptFile]
    /\ UNCHANGED <<storeVars, call>>

RunNext ==
    \/ Validate \/ BuildStores \/ BuildScrapers \/ ShowStats \/ ScrapeOne
    \/ CloseAll \/ ProcessOne \/ SendReport \/ Interrupt \/ InterruptWrite

SpecRun == RunInit /\ [][RunNext]_vars

\* ------------------------------------------------- claims on the run

\* the run came to the end of its scraping block with no interruption
ScrapingOver ==
    \/ run.pc \in {"process", "email"}
    \/ run.pc = "close" /\ ~run.interrupted
    \/ run.pc = "done" /\ (run.sent \/ run.new_urls_by_source # <<>>)

\* every request of the sitemap of JoinClassActions fails or is unparsable
JcaSourceFails ==
    \A i \in 1..MAX_RETRIES :
        \/ run.inputs.jca[i].kind = "error"
        \/ run.inputs.jca[i].status # 200
        \/ run.inputs.jca[i].body.xml # "ok"

\* C25: scrape() of JoinClassActions and of CyberSecGuru return a list and
\* raise nothing whatever fails or is malformed, so every source of the run
\* is scraped: a failing source gives the empty list and the later sources
\* are still scraped.
C25_ScrapeNeverRaises ==
    /\ run.pc # "none" => run.pending # "Exception"
    /\ (run.pc # "none" /\ ScrapingOver) =>
           /\ Len(run.scraped) = NSources
           /\ JcaSourceFails => run.scraped[1] = <<>>

\* C25 witness: the first source fails, the last meets a malformed sitemap,
\* and the last is scraped all the same
C25_Witness ==
    /\ run.pc = "process"
    /\ JcaSourceFails
    /\ run.inputs.csg.paths[1] = Response(200, MalformedBody)
    /\ run.scraped[1] = <<>>
    /\ run.scraped[NSources] = << <<"p">>, <<"p">> >>

\* C26: every session opened when the scrapers are built is closed before
\* the run ends, on the normal path and on every error path.
C26_SessionsReleased ==
    run.pc = "done" => run.sessions = {}

\* C27: an interruption at any point of the run gives a non-zero exit status
\* and leaves every store file whole: its content from before the write or
\* the complete new content.
C27_InterruptLeavesFilesWhole ==
    (run.pc = "done" /\ run.interrupted) =>
        /\ run.exit # 0
        /\ \A k \in 1..NSources : run.files[k].kind # "corrupt"

\* C28: every URL a run writes to a store as new is in the mapping handed
\* to the mail reporter in that run, under its source.
C28_PersistedAreReported ==
    run.pc = "done" =>
        \A k \in 1..NSources :
            run.persisted[k] # <<>> =>
                /\ run.sent
                /\ run.reported[k] = run.persisted[k]

\* ------------------------------------------------ the text of a store file

Quote == "\""
Backslash == "\\"
Newline == "\n"

\* URLs with the characters JSON has to escape
TextUrls == { <<"a">>, <<"a", Quote>>, <<Backslash, "n">>, <<Newline>> }

\* the escaping, were the backslash written as it is
escape_quote_only(c) ==
    CASE c = Quote -> <<Backslash, Quote>>
      [] c = Newline -> <<Backslash, "n">>
      [] OTHER -> <<c>>

\* what json.dump writes for one character of a string (ensure_ascii=False)
escape(c) ==
    CASE c = Quote -> <<Backslash, Quote>>
      [] c = Backslash -> <<Backslash, Backslash>>
      [] c = Newline -> <<Backslash, "n">>
      [] OTHER -> <<c>>

RECURSIVE escaped(_)
\* the characters of a string, each escaped
escaped(s) == IF s = <<>> THEN <<>> ELSE escape(Head(s)) \o escaped(Tail(s))

\* json.dump of one string: the escaped characters between two quotes
dumps_string(s) == <<Quote>> \o escaped(s) \o <<Quote>>

RECURSIVE closing(_, _)
\* where json.load finds the quote that ends the string begun at t[1],
\* reading from position i; 0 if the text ends before it
closing(t, i) ==
    IF i > Len(t) THEN 0
    ELSE IF t[i] = Backslash THEN closing(t, i + 2)
    ELSE IF t[i] = Quote THEN i
    ELSE closing(t, i + 1)

\* the text is one whole string and nothing else
string_ok(t) == Len(t) >= 2 /\ t[1] = Quote /\ closing(t, 2) = Len(t)

\* the character json.load reads for a backslash followed by c
unescape(c) == IF c = "n" THEN Newline ELSE c

RECURSIVE loads_chars(_)
\* the characters json.load reads between the quotes
loads_chars(t) ==
    IF t = <<>> THEN <<>>
    ELSE IF Head(t) = Backslash
         THEN <<unescape(t[2])>> \o loads_chars(SubSeq(t, 3, Len(t)))
         ELSE <<Head(t)>> \o loads_chars(Tail(t))

\* json.load of one string
loads_string(t) == loads_chars(SubSeq(t, 2, Len(t) - 1))

\* the text json.dump writes for the dictionary of a store
json_dump(d) ==
    [whole |-> TRUE,
     urls |-> [i \in 1..Len(d.urls) |-> dumps_string(d.urls[i])],
     created_at |-> d.created_at,
     last_updated |-> d.last_updated,
     total_urls |-> d.total_urls]

\* the text left by a json.dump that stopped half-way
TruncatedText == [whole |-> FALSE]

\* json.load raises JSONDecodeError on the text
JSONDecodeError(text) ==
    \/ ~text.whole
    \/ \E i \in 1..Len(text.urls) : ~string_ok(text.urls[i])

\* the dictionary json.load reads from a text that parses
json_load(text) ==
    [urls |-> [i \in 1..Len(text.urls) |-> loads_string(text.urls[i])],
     created_at |-> text.created_at,
     last_updated |-> text.last_updated,
     total_urls |-> text.total_urls]

TextFile(text) == [kind |-> "text", text |-> text]

\* URLStorage._load on a file given by its text
_load_text(f, t) ==
    IF f.kind = "absent" THEN EmptyData(t)
    ELSE IF JSONDecodeError(f.text) THEN EmptyData(t)
    ELSE json_load(f.text)

\* the file after _save tried to write dictionary d
_save_text(f, d, outcome) ==
    CASE outcome = "ok" -> TextFile(json_dump(d))
      [] outcome = "open_fail" -> f
      [] outcome = "dump_fail" -> TextFile(TruncatedText)

\* URLStorage.add_urls(new_urls) at time t on a store holding d over file f
add_urls_text(d, f, new_urls, t, outcome) ==
    LET tn == truly_new(new_urls, get_seen_urls(d))
    IN  IF must_save(tn)
        THEN LET d2 == save_metadata([d EXCEPT !.urls = extend(@, tn)], t)
             IN  [data |-> d2, file |-> _save_text(f, d2, outcome),
                  ret |-> IF save_raises(outcome) THEN <<>> ELSE tn,
                  raised |-> save_raises(outcome), wrote |-> TRUE]
        ELSE [data |-> d, file |-> f, ret |-> tn, raised |-> FALSE,
              wrote |-> FALSE]

\* the candidate lists of the two runs
TextCandidates == UNION { [1..n -> TextUrls] : n \in 0..MaxBatch }

\* the file the first run finds
PriorFiles ==
    { AbsentFile,
      TextFile(TruncatedText),
      TextFile(json_dump([urls |-> << <<"a">> >>, created_at |-> 0,
                          last_updated |-> 1, total_urls |-> 1])) }

RoundTripInit ==
    /\ StoreIdle
    /\ \E prior \in PriorFiles, first \in TextCandidates,
          second \in TextCandidates, outcome \in SaveOutcomes :
           call = [op |-> "ready", prior |-> prior, first |-> first,
                   second |-> second, outcome |-> outcome]

\* one run: URLStorage(file) and add_urls(call.first)
FirstRun ==
    /\ call.op = "ready"
    /\ LET r == add_urls_text(_load_text(call.prior, now), call.prior,
                              call.first, now + 2, call.outcome)
       IN  call' = [op |-> "first_run", prior |-> call.prior,
                    first |-> call.first, second |-> call.second,
                    outcome |-> call.outcome,
                    store |-> r.data, file |-> r.file, ret1 |-> r.ret,
                    raised1 |-> r.raised, wrote1 |-> r.wrote]
    /\ UNCHANGED <<storeVars, run>>

\* a later run: URLStorage(file) on the file left behind, add_urls(call.second)
SecondRun ==
    /\ call.op = "first_run"
    /\ LET loaded == _load_text(call.file, now + 3)
           r == add_urls_text(loaded, call.file, call.second, now + 5, "ok")
       IN  call' = [op |-> "second_run", prior |-> call.prior,
                    first |-> call.first, second |-> call.second,
                    outcome |-> call.outcome,
                    store |-> call.store, file |-> call.file,
                    ret1 |-> call.ret1, raised1 |-> call.raised1,
                    wrote1 |-> call.wrote1,
                    loaded |-> loaded, ret2 |-> r.ret]
    /\ UNCHANGED <<storeVars, run>>

RoundTripNext == FirstRun \/ SecondRun

SpecRoundTrip == RoundTripInit /\ [][RoundTripNext]_vars

\* ------------------------------------------- claims on the round trip

\* the first run admitted URLs and its write went through
FirstRunPersisted ==
    call.op = "second_run" /\ call.wrote1 /\ ~call.raised1

\* C31: after an add_urls that admitted URLs and returned, a store loaded
\* from the same file holds the URL sequence and the metadata of the store
\* that wrote it, and no URL that call returned as new is returned as new
\* by add_urls on the store loaded in the later run.
C31_RoundTrip ==
    FirstRunPersisted =>
        /\ call.loaded = call.store
        /\ Elems(call.ret1) \cap Elems(call.ret2) = {}

C31_Witness ==
    /\ FirstRunPersisted
    /\ call.first = << <<Backslash, "n">>, <<"a", Quote>> >>
    /\ call.ret1 = call.first
    /\ call.second = << <<Backslash, "n">>, <<Newline>> >>
    /\ call.ret2 = << <<Newline>> >>
    /\ call.prior.kind = "text"
    /\ call.loaded.urls = << <<"a">> >> \o call.first

\* ------------------------------------- claims on repeated URLs of a scrape

\* no element of the sequence occurs twice
NoRepeats(s) == \A i, j \in 1..Len(s) : s[i] = s[j] => i = j

\* C32: the list scrape returns never holds the same URL twice, whether it
\* came from one urlset, from the children of a sitemap index or from the
\* homepage.
C32_NoDuplicates ==
    CsgScraped => NoRepeats(call.res.urls)

\* ------------------------------------- claims on the status of a fetch

\* C33: _fetch_with_retry returns only responses whose status is 2xx; a
\* response with any other status is a failed attempt, retried and never
\* returned.
C33_OnlySuccessStatus ==
    (Fetched /\ ~call.res.raised) => call.res.resp.status \in 200..299

\* ------------------------------------- claims on the number of requests

\* how often url was requested during the call
RequestsOf(url) == Cardinality(PlacesOf(RequestedUrls(call.res.events), url))

\* the places where a sitemap index answered by a candidate path names url
\* as a child
ListingsOf(site, url) ==
    { <<k, i>> \in (1..Len(SitemapPaths)) \X (1..MaxChildren) :
        /\ IsIndexAnswer(site.paths[k])
        /\ i <= Len(site.paths[k].body.entries)
        /\ site.paths[k].body.entries[i].parent = "sitemap"
        /\ site.paths[k].body.entries[i].text = url }

\* the URLs the site's indexes name as children
IndexListed(site) == { u \in ChildTexts : ListingsOf(site, u) # {} }

\* the candidate URLs
CandidateUrls == { CandidateUrl(j) : j \in 1..Len(CandidateOrder) }

\* C34: scrape ends after a bounded number of requests: every candidate
\* path is probed at most once, every child an index names is fetched with
\* at most max_retries attempts for each time it is named, the homepage with
\* at most max_retries attempts, and nothing else is requested: the <loc>
\* entries of a child are never fetched, whether or not the child is itself
\* an index or the index that names it.
C34_BoundedFetching ==
    CsgScraped =>
        LET asked == RequestedUrls(call.res.events)
            site == call.site
        IN  /\ \A i \in 1..Len(asked) :
                   asked[i] \in CandidateUrls \cup {SiteUrl} \cup IndexListed(site)
            /\ \A u \in CandidateUrls :
                   RequestsOf(u) <=
                       1 + Cardinality(ListingsOf(site, u)) * MAX_RETRIES
            /\ \A u \in IndexListed(site) \ CandidateUrls :
                   RequestsOf(u) <= Cardinality(ListingsOf(site, u)) * MAX_RETRIES
            /\ RequestsOf(SiteUrl) <= MAX_RETRIES
            /\ Len(asked) <= Len(SitemapPaths) + MAX_RETRIES
                             + MaxChildren * MAX_RETRIES

\* C34 witness: the first candidate is an index that names itself and a
\* child; both are fetched once more as children and their <loc> entries
\* become the result without being fetched
C34_Witness ==
    /\ CsgScraped
    /\ call.site.paths[1] =
           Response(200, Document(<<SitemapEntry(CandidateUrl(1)),
                                    SitemapEntry(<<"c1">>)>>))
    /\ RequestsOf(CandidateUrl(1)) = 2
    /\ RequestsOf(<<"c1">>) = 1
    /\ RequestsOf(<<"p">>) = 0
    /\ Len(RequestedUrls(call.res.events)) = 3
    /\ call.res.urls = <<CandidateUrl(1), <<"c1">>, <<"p">>, <<"data-breach">>>>

\* ------------------------------------- claims on the retries of a probe

\* C35: a candidate path whose requests fail with a network error is
\* requested max_retries times, with a sleep of retry_delay after each
\* request but the last, before _try_sitemaps goes on to the next path.
C35_ProbesRetried ==
    TriedSitemaps =>
        LET asked == RequestedUrls(call.res.events)
        IN  \A j \in 1..Len(CandidateOrder) :
                (/\ PlacesOf(asked, CandidateUrl(j)) # {}
                 /\ CandidateAnswer(call.site, j).kind = "error") =>
                    /\ Cardinality(PlacesOf(asked, CandidateUrl(j))) >= MAX_RETRIES
                    /\ CountEv(call.res.events, "sleep") >= MAX_RETRIES - 1

====
